---- MODULE Spec2Model ----
(***************************************************************************)
(* Verification model of the chatkit incremental message reconstruction   *)
(* engine: the SSE frame decoder (handleStreamResponse), the agent        *)
(* platform reducer (reduceAssistantMessage with its whitelist, patch     *)
(* interpreter and block projectors), the bot platform reducer, the UI    *)
(* block sink (append*Block) and the token refresh wrapper.               *)
(*                                                                         *)
(* JavaScript values are modelled as tagged nodes of one uniform shape,   *)
(* texts are TLA+ strings handled character by character.                 *)
(***************************************************************************)
EXTENDS Integers, Sequences, FiniteSets, TLC

(***************************************************************************)
(* JavaScript values                                                       *)
(***************************************************************************)
\* k: "undef" | "null" | "bool" | "num" | "str" | "obj" | "arr" | "thrown"
\* s: text of a string, "true"/"false" of a boolean
\* n: value of a number (non-negative integers only)
\* f: entries <<[key, val]>>; array elements carry key "" and come first
Mk(kind, str, num, ents) == [k |-> kind, s |-> str, n |-> num, f |-> ents]
Undef == Mk("undef", "", 0, <<>>)
Null == Mk("null", "", 0, <<>>)
Thrown == Mk("thrown", "", 0, <<>>)
Str(t) == Mk("str", t, 0, <<>>)
Num(i) == Mk("num", "", i, <<>>)
Bool(b) == Mk("bool", IF b THEN "true" ELSE "false", 0, <<>>)
E(key, val) == [key |-> key, val |-> val]
Obj(ents) == Mk("obj", "", 0, ents)
Arr(vals) == Mk("arr", "", 0, [i \in 1..Len(vals) |-> E("", vals[i])])
EmptyObj == Obj(<<>>)
EmptyArr == Arr(<<>>)

IsStr(v) == v.k = "str"
IsNum(v) == v.k = "num"
IsArr(v) == v.k = "arr"
IsObj(v) == v.k = "obj"
IsThrown(v) == v.k = "thrown"
\* x == null
IsNullish(v) == v.k \in {"undef", "null"}
\* ToBoolean
Truthy(v) ==
  CASE v.k \in {"undef", "null", "thrown"} -> FALSE
    [] v.k = "bool" -> v.s = "true"
    [] v.k = "num" -> v.n # 0
    [] v.k = "str" -> v.s # ""
    [] OTHER -> TRUE
\* a || b
Or(a, b) == IF Truthy(a) THEN a ELSE b

(***************************************************************************)
(* Text helpers (String.prototype)                                        *)
(***************************************************************************)
CharAt(s, i) == IF i < 1 \/ i > Len(s) THEN "" ELSE SubSeq(s, i, i)
Digits == <<"0", "1", "2", "3", "4", "5", "6", "7", "8", "9">>
IsDigit(c) == \E d \in 1..10 : Digits[d] = c
DigitVal(c) == (CHOOSE d \in 1..10 : Digits[d] = c) - 1
IsSpace(c) == c \in {" ", "\t", "\n", "\r", "\f"}

startsWith(s, p) == Len(p) <= Len(s) /\ SubSeq(s, 1, Len(p)) = p

\* the first position at or after i that holds no white space, Len(s) + 1 if none
FirstNonSpace(s, i) ==
  IF \A j \in i..Len(s) : IsSpace(CharAt(s, j)) THEN Len(s) + 1
  ELSE CHOOSE j \in i..Len(s) :
         ~IsSpace(CharAt(s, j)) /\ \A k \in i..(j - 1) : IsSpace(CharAt(s, k))
\* the last position at or before i that holds no white space, 0 if none
LastNonSpace(s, i) ==
  IF \A j \in 1..i : IsSpace(CharAt(s, j)) THEN 0
  ELSE CHOOSE j \in 1..i :
         ~IsSpace(CharAt(s, j)) /\ \A k \in (j + 1)..i : IsSpace(CharAt(s, k))
trim(s) == SubSeq(s, FirstNonSpace(s, 1), LastNonSpace(s, Len(s)))

\* index of the first occurrence of the one-character text c at or after i, 0 if none
IndexOf(s, c, i) ==
  IF \A j \in i..Len(s) : CharAt(s, j) # c THEN 0
  ELSE CHOOSE j \in i..Len(s) :
         CharAt(s, j) = c /\ \A k \in i..(j - 1) : CharAt(s, k) # c

\* s.replace(/\.\[/g, '[')
RECURSIVE ReplaceDotBracket(_)
ReplaceDotBracket(s) ==
  IF Len(s) < 2 THEN s
  ELSE IF SubSeq(s, 1, 2) = ".[" THEN "[" \o ReplaceDotBracket(SubSeq(s, 3, Len(s)))
  ELSE CharAt(s, 1) \o ReplaceDotBracket(SubSeq(s, 2, Len(s)))

\* String(v) for the values that reach a text context
ToStr(v) ==
  CASE v.k = "str" -> v.s
    [] v.k = "num" -> ToString(v.n)
    [] v.k = "bool" -> v.s
    [] v.k = "null" -> "null"
    [] v.k = "undef" -> "undefined"
    [] v.k = "obj" -> "[object Object]"
    [] OTHER -> ""

(***************************************************************************)
(* Property access, assignment, JSON                                       *)
(***************************************************************************)
\* text of a canonical array index ("0", "12"), as a number; -1 otherwise
RECURSIVE DigitsToNat(_, _, _)
DigitsToNat(s, i, acc) ==
  IF i > Len(s) THEN acc
  ELSE IF IsDigit(CharAt(s, i)) THEN DigitsToNat(s, i + 1, acc * 10 + DigitVal(CharAt(s, i)))
  ELSE -1
StrToIndex(s) ==
  IF s = "" \/ (Len(s) > 1 /\ CharAt(s, 1) = "0") THEN -1 ELSE DigitsToNat(s, 1, 0)

\* property name a key segment denotes
KeyName(key) == ToStr(key)
\* array index a key segment denotes, -1 if it is not an index
AsIndex(key) == IF IsNum(key) THEN key.n ELSE IF IsStr(key) THEN StrToIndex(key.s) ELSE -1

RECURSIVE FindKey(_, _, _)
FindKey(ents, name, i) ==
  IF i > Len(ents) THEN 0
  ELSE IF ents[i].key = name THEN i ELSE FindKey(ents, name, i + 1)

\* number of indexed elements of an array node
RECURSIVE CountIndexed(_, _)
CountIndexed(ents, i) ==
  IF i > Len(ents) \/ ents[i].key # "" THEN i - 1 ELSE CountIndexed(ents, i + 1)
ArrLen(a) == CountIndexed(a.f, 1)

\* base[key] for a base that is not null or undefined
GetProp(base, key) ==
  LET name == KeyName(key)
      idx == AsIndex(key)
      at == FindKey(base.f, name, 1)
  IN CASE IsObj(base) -> IF at = 0 THEN Undef ELSE base.f[at].val
       [] IsArr(base) ->
            IF idx >= 0 THEN (IF idx < ArrLen(base) THEN base.f[idx + 1].val ELSE Undef)
            ELSE IF name = "length" THEN Num(ArrLen(base))
            ELSE IF name # "" /\ at # 0 THEN base.f[at].val ELSE Undef
       [] IsStr(base) ->
            IF idx >= 0 THEN (IF idx < Len(base.s) THEN Str(CharAt(base.s, idx + 1)) ELSE Undef)
            ELSE IF name = "length" THEN Num(Len(base.s)) ELSE Undef
       [] OTHER -> Undef

\* base?.[key]
OptProp(base, key) == IF IsNullish(base) THEN Undef ELSE GetProp(base, key)
\* base?.name
Dot(base, name) == OptProp(base, Str(name))

\* base[key] = val in strict mode: the updated base, or Thrown (TypeError) on a primitive
SetProp(base, key, val) ==
  LET name == KeyName(key)
      idx == AsIndex(key)
      at == FindKey(base.f, name, 1)
      len == ArrLen(base)
      named == SubSeq(base.f, len + 1, Len(base.f))
  IN CASE IsObj(base) ->
            IF at = 0 THEN Obj(Append(base.f, E(name, val)))
            ELSE Obj([base.f EXCEPT ![at] = E(name, val)])
       [] IsArr(base) ->
            IF idx >= 0 THEN
              IF idx < len THEN [base EXCEPT !.f[idx + 1] = E("", val)]
              ELSE [base EXCEPT !.f =
                      SubSeq(base.f, 1, len)
                      \o [i \in 1..(idx - len) |-> E("", Undef)]
                      \o <<E("", val)>> \o named]
            ELSE IF name = "length" \/ name = "" THEN base
            ELSE IF at = 0 THEN [base EXCEPT !.f = Append(base.f, E(name, val))]
            ELSE [base EXCEPT !.f[at] = E(name, val)]
       [] OTHER -> Thrown

\* JSON.parse(JSON.stringify(v)) for a value that is not undefined
RECURSIVE JSONClone(_)
JSONClone(v) ==
  CASE IsObj(v) ->
         LET keep == SelectSeq(v.f, LAMBDA e : e.val.k # "undef")
         IN Obj([i \in 1..Len(keep) |-> E(keep[i].key, JSONClone(keep[i].val))])
    [] IsArr(v) ->
         Mk("arr", "", 0, [i \in 1..ArrLen(v) |->
              E("", IF v.f[i].val.k = "undef" THEN Null ELSE JSONClone(v.f[i].val))])
    [] OTHER -> v

\* JSON.parse: objects, arrays, strings without escapes, non-negative integers,
\* true, false, null.  The result is [ok, v, i]: i is the next unread position.
PFail == [ok |-> FALSE, v |-> Undef, i |-> 0]
POk(v, i) == [ok |-> TRUE, v |-> v, i |-> i]
RECURSIVE ParseDigits(_, _, _)
ParseDigits(s, i, acc) ==
  IF i <= Len(s) /\ IsDigit(CharAt(s, i))
  THEN ParseDigits(s, i + 1, acc * 10 + DigitVal(CharAt(s, i)))
  ELSE POk(Num(acc), i)
ParseString(s, i) ==
  LET close == IndexOf(s, "\"", i + 1)
      body == SubSeq(s, i + 1, close - 1)
  IN IF close = 0 \/ IndexOf(body, "\\", 1) # 0 \/ IndexOf(body, "\n", 1) # 0
     THEN PFail ELSE POk(Str(body), close + 1)
ParseLiteral(s, i, word, v) ==
  IF i + Len(word) - 1 <= Len(s) /\ SubSeq(s, i, i + Len(word) - 1) = word
  THEN POk(v, i + Len(word)) ELSE PFail
RECURSIVE ParseValue(_, _)
RECURSIVE ParseMembers(_, _, _)
RECURSIVE ParseElements(_, _, _)
\* the value that starts at the non-space position i
ParseValueAt(s, i, c) ==
  IF i > Len(s) THEN PFail
  ELSE IF c = "{" THEN ParseMembers(s, i + 1, EmptyObj)
  ELSE IF c = "[" THEN ParseElements(s, i + 1, EmptyArr)
  ELSE IF c = "\"" THEN ParseString(s, i)
  ELSE IF IsDigit(c) THEN
    (IF c = "0" /\ IsDigit(CharAt(s, i + 1)) THEN PFail ELSE ParseDigits(s, i, 0))
  ELSE IF c = "t" THEN ParseLiteral(s, i, "true", Bool(TRUE))
  ELSE IF c = "f" THEN ParseLiteral(s, i, "false", Bool(FALSE))
  ELSE IF c = "n" THEN ParseLiteral(s, i, "null", Null)
  ELSE PFail
ParseValueFrom(s, i) == ParseValueAt(s, i, CharAt(s, i))
ParseValue(s, i0) == ParseValueFrom(s, FirstNonSpace(s, i0))
\* after a member or element: a comma continues the list, the closer ends it
MemberNext(s, next, acc) ==
  IF CharAt(s, next) = "," THEN ParseMembers(s, next + 1, acc)
  ELSE IF CharAt(s, next) = "}" THEN POk(acc, next + 1)
  ELSE PFail
MemberValue(s, name, val, acc) ==
  IF ~val.ok THEN PFail
  ELSE MemberNext(s, FirstNonSpace(s, val.i), SetProp(acc, name.v, val.v))
MemberColon(s, name, colon, acc) ==
  IF name.ok /\ CharAt(s, colon) = ":" THEN MemberValue(s, name, ParseValue(s, colon + 1), acc)
  ELSE PFail
MemberName(s, name, acc) == MemberColon(s, name, FirstNonSpace(s, name.i), acc)
MemberAt(s, i, acc) ==
  IF CharAt(s, i) = "}" /\ acc = EmptyObj THEN POk(acc, i + 1)
  ELSE IF CharAt(s, i) = "\"" THEN MemberName(s, ParseString(s, i), acc)
  ELSE PFail
\* members of an object, the opening brace or a comma just read
ParseMembers(s, i0, acc) == MemberAt(s, FirstNonSpace(s, i0), acc)
ElementNext(s, next, acc) ==
  IF CharAt(s, next) = "," THEN ParseElements(s, next + 1, acc)
  ELSE IF CharAt(s, next) = "]" THEN POk(acc, next + 1)
  ELSE PFail
ElementValue(s, val, acc) ==
  IF ~val.ok THEN PFail
  ELSE ElementNext(s, FirstNonSpace(s, val.i), SetProp(acc, Num(ArrLen(acc)), val.v))
ElementAt(s, i, acc) ==
  IF CharAt(s, i) = "]" /\ acc = EmptyArr THEN POk(acc, i + 1)
  ELSE ElementValue(s, ParseValueFrom(s, i), acc)
\* elements of an array, the opening bracket or a comma just read
ParseElements(s, i0, acc) == ElementAt(s, FirstNonSpace(s, i0), acc)
ParseResult(text, r) ==
  IF r.ok /\ FirstNonSpace(text, r.i) > Len(text) THEN r.v ELSE Thrown
\* JSON.parse(text): the value, or Thrown (SyntaxError)
JSONParse(text) == ParseResult(text, ParseValue(text, 1))

(***************************************************************************)
(* UI state store: the message list and the append*Block callbacks         *)
(* (ChatKitBase).  u is the part of the component state the reducers       *)
(* touch: [messages, conversationID, calls, errors]; calls logs every      *)
(* append*Block invocation, errors counts state updaters that threw.       *)
(***************************************************************************)
BlockTypeTEXT == "Text"
BlockTypeMARKDOWN == "Markdown"
BlockTypeWEB_SEARCH == "WebSearch"
BlockTypeTOOL == "Tool"
BlockTypeJSON2PLOT == "Json2Plot"
Block(type, content) == [type |-> type, content |-> content]
ChatMessage(messageId, content) == [messageId |-> messageId, content |-> content]
Call(fn, messageId, arg) == [fn |-> fn, id |-> messageId, arg |-> arg]

\* setState(prevState => ({messages: prevState.messages.map(...)})) with the
\* per-message content update F applied to the message carrying messageId
UpdateMessage(u, messageId, F(_)) ==
  [u EXCEPT !.messages = [i \in 1..Len(u.messages) |->
     IF u.messages[i].messageId = messageId
     THEN [u.messages[i] EXCEPT !.content = F(u.messages[i].content)]
     ELSE u.messages[i]]]

\* lastBlock && lastBlock.type === MARKDOWN && (lastBlock.content === '' || text.startsWith(lastBlock.content))
MergesIntoEmptyLast(content, text) ==
  /\ Len(content) > 0
  /\ content[Len(content)].type = BlockTypeMARKDOWN
  /\ content[Len(content)].content = Str("")
MergesIntoLast(content, text) ==
  /\ Len(content) > 0
  /\ content[Len(content)].type = BlockTypeMARKDOWN
  /\ \/ content[Len(content)].content = Str("")
     \/ /\ IsStr(text)
        /\ startsWith(text.s, ToStr(content[Len(content)].content))
\* text.startsWith is evaluated on a text that is not a string: TypeError
MergeThrows(content, text) ==
  /\ Len(content) > 0
  /\ content[Len(content)].type = BlockTypeMARKDOWN
  /\ content[Len(content)].content # Str("")
  /\ ~IsStr(text)

MarkdownContentAppend(content, text) == Append(content, Block(BlockTypeMARKDOWN, text))
MarkdownContent(content, text) ==
  IF MergesIntoLast(content, text)
  THEN [content EXCEPT ![Len(content)] = Block(BlockTypeMARKDOWN, text)]
  ELSE Append(content, Block(BlockTypeMARKDOWN, text))

appendMarkdownBlock(u, messageId, text) ==
  LET logged == [u EXCEPT !.calls = Append(u.calls, Call("appendMarkdownBlock", messageId, text))]
      throws == \E i \in 1..Len(u.messages) :
                  /\ u.messages[i].messageId = messageId
                  /\ MergeThrows(u.messages[i].content, text)
      Upd(content) == MarkdownContent(content, text)
  IN IF throws THEN [logged EXCEPT !.errors = u.errors + 1]
     ELSE UpdateMessage(logged, messageId, Upd)

\* an append that does not look at the message id
AppendBlockToAll(u, fn, messageId, arg, block) ==
  [u EXCEPT !.calls = Append(u.calls, Call(fn, messageId, arg)),
            !.messages = [i \in 1..Len(u.messages) |->
               [u.messages[i] EXCEPT !.content = Append(@, block)]]]
AppendBlock(u, fn, messageId, arg, block) ==
  LET logged == [u EXCEPT !.calls = Append(u.calls, Call(fn, messageId, arg))]
      Upd(content) == Append(content, block)
  IN UpdateMessage(logged, messageId, Upd)

appendWebSearchBlock(u, messageId, query) ==
  AppendBlock(u, "appendWebSearchBlock", messageId, query, Block(BlockTypeWEB_SEARCH, query))

\* the title literal of the source is rendered in ASCII; the icon element is left out
appendExecuteCodeBlock(u, messageId, result) ==
  AppendBlock(u, "appendExecuteCodeBlock", messageId, result,
    Block(BlockTypeTOOL, Obj(<<E("name", Str("execute_code")), E("title", Str("execute code")),
                               E("input", Dot(result, "input")), E("output", Dot(result, "output"))>>)))

appendText2SqlBlock(u, messageId, result) ==
  AppendBlock(u, "appendText2SqlBlock", messageId, result,
    Block(BlockTypeTOOL, Obj(<<E("name", Str("text2sql")), E("title", Dot(result, "title")),
                               E("input", Dot(result, "sql")),
                               E("output", Obj(<<E("data", Dot(result, "data"))>>))>>)))

appendJson2PlotBlock(u, messageId, chartData) ==
  AppendBlock(u, "appendJson2PlotBlock", messageId, chartData, Block(BlockTypeJSON2PLOT, chartData))

(***************************************************************************)
(* Patch interpreter (DIPBase)                                             *)
(***************************************************************************)
\* key segments of a key array node
KeySeq(key) == [i \in 1..ArrLen(key) |-> key.f[i].val]

RECURSIVE getNestedProperty(_, _)
getNestedProperty(obj, key) ==
  IF Len(key) = 0 THEN obj
  ELSE IF IsNullish(obj) THEN Undef
  ELSE getNestedProperty(GetProp(obj, key[1]), Tail(key))

\* the updated obj, or Thrown when an assignment hits a primitive
RECURSIVE setNestedProperty(_, _, _)
\* current[k] = sub once the rest of the key has been set below current[k]
SetChild(obj, k, sub) == IF IsThrown(sub) THEN Thrown ELSE SetProp(obj, k, sub)
\* a walk that creates an object whatever the next key is
SetBelowObject(obj, key, value, child, fresh) ==
  IF IsNullish(child)
  THEN (IF IsThrown(SetProp(obj, key[1], EmptyObj)) THEN Thrown
        ELSE SetChild(obj, key[1], setNestedProperty(EmptyObj, Tail(key), value)))
  ELSE SetChild(obj, key[1], setNestedProperty(child, Tail(key), value))
\* "if (current[k] == null) current[k] = typeof nextKey === 'number' ? [] : {}"
SetBelow(obj, key, value, child, fresh) ==
  IF IsNullish(child)
  THEN (IF IsThrown(SetProp(obj, key[1], fresh)) THEN Thrown
        ELSE SetChild(obj, key[1], setNestedProperty(fresh, Tail(key), value)))
  ELSE SetChild(obj, key[1], setNestedProperty(child, Tail(key), value))
setNestedProperty(obj, key, value) ==
  IF Len(key) = 0 THEN obj
  ELSE IF Len(key) = 1 THEN SetProp(obj, key[1], value)
  ELSE SetBelow(obj, key, value, GetProp(obj, key[1]),
                IF IsNum(key[2]) THEN EmptyArr ELSE EmptyObj)

\* an upsert into a fresh object: everything else is lost
applyUpsertFresh(obj, key, content) ==
  IF Len(key) = 0 THEN obj ELSE setNestedProperty(EmptyObj, key, content)
applyUpsert(obj, key, content) ==
  IF Len(key) = 0 THEN obj ELSE setNestedProperty(obj, key, content)

\* "if (Array.isArray(parent)) parent[lastKey] = content"
AppendIndexed(obj, parentKey, parent, lastKey, content) ==
  IF IsArr(parent) THEN setNestedProperty(obj, parentKey, SetProp(parent, lastKey, content))
  ELSE obj
\* an else branch that puts the new text in front
AppendTextPrepending(obj, key, currentValue, content) ==
  setNestedProperty(obj, key,
    IF IsStr(currentValue) /\ IsStr(content) THEN Str(content.s \o currentValue.s) ELSE content)
\* an else branch that always overwrites
AppendTextOverwriting(obj, key, currentValue, content) == setNestedProperty(obj, key, content)
\* the else branch of applyAppend
AppendText(obj, key, currentValue, content) ==
  setNestedProperty(obj, key,
    IF IsStr(currentValue) /\ IsStr(content) THEN Str(currentValue.s \o content.s) ELSE content)
applyAppend(obj, key, content) ==
  IF Len(key) = 0 THEN obj
  ELSE IF IsNum(key[Len(key)])
  THEN AppendIndexed(obj, SubSeq(key, 1, Len(key) - 1),
                     getNestedProperty(obj, SubSeq(key, 1, Len(key) - 1)), key[Len(key)], content)
  ELSE AppendText(obj, key, getNestedProperty(obj, key), content)

\* The patch interpreter works on "cloned = {...obj}": the top level is a new
\* object, every node below it is the node of obj itself.  ArgAfter* is the
\* tree obj as the caller sees it once the call has returned (obj itself when
\* the call raised).
ArgAfterBelow(obj, k, sub) == IF IsThrown(sub) THEN obj ELSE SetProp(obj, k, sub)
ArgAfterChild(obj, key, value, child) ==
  IF IsNullish(child) THEN obj
  ELSE ArgAfterBelow(obj, key[1], setNestedProperty(child, Tail(key), value))
\* setNestedProperty(cloned, key, value)
ArgAfterSet(obj, key, value) ==
  IF Len(key) <= 1 \/ ~(IsObj(obj) \/ IsArr(obj)) THEN obj
  ELSE ArgAfterChild(obj, key, value, GetProp(obj, key[1]))
\* parent[lastKey] = content, parent a node below cloned
ArgAfterIndexed(obj, parentKey, parent, lastKey, content) ==
  IF Len(parentKey) > 0 /\ IsArr(parent)
  THEN setNestedProperty(obj, parentKey, SetProp(parent, lastKey, content))
  ELSE obj
ArgAfterText(obj, key, currentValue, content) ==
  ArgAfterSet(obj, key,
    IF IsStr(currentValue) /\ IsStr(content) THEN Str(currentValue.s \o content.s) ELSE content)
ArgAfterAppend(obj, key, content) ==
  IF Len(key) = 0 THEN obj
  ELSE IF IsNum(key[Len(key)])
  THEN ArgAfterIndexed(obj, SubSeq(key, 1, Len(key) - 1),
                       getNestedProperty(obj, SubSeq(key, 1, Len(key) - 1)), key[Len(key)],
                       content)
  ELSE ArgAfterText(obj, key, getNestedProperty(obj, key), content)
ArgAfterApply(action, obj, key, content) ==
  IF action = Str("upsert") THEN ArgAfterSet(obj, key, content)
  ELSE IF action = Str("append") THEN ArgAfterAppend(obj, key, content)
  ELSE obj

(***************************************************************************)
(* Block projectors (DIPBase): extraction functions return the extracted   *)
(* object or Null                                                          *)
(***************************************************************************)
\* base?.a?.b?.c
RECURSIVE Chain(_, _)
Chain(base, names) ==
  IF Len(names) = 0 THEN base ELSE Chain(Dot(base, names[1]), Tail(names))
Elems(arr) == [i \in 1..ArrLen(arr) |-> arr.f[i].val]
AnyNullish(vals) == \E i \in 1..Len(vals) : IsNullish(vals[i])

\* answer?.choices?.[0]?.message?.tool_calls
ToolCallsOf(answer) ==
  Chain(OptProp(Dot(answer, "choices"), Num(0)), <<"message", "tool_calls">>)

\* one entry of the results list
SearchResult(item) ==
  Obj(<<E("content", Or(Dot(item, "content"), Str(""))),
        E("icon", Or(Dot(item, "icon"), Str(""))),
        E("link", Or(Dot(item, "link"), Str(""))),
        E("media", Or(Dot(item, "media"), Str(""))),
        E("title", Or(Dot(item, "title"), Str("")))>>)
\* searchIntent.query || searchIntent.keywords || ''
SearchInput(searchIntent) ==
  Or(Or(Dot(searchIntent, "query"), Dot(searchIntent, "keywords")), Str(""))
\* "Array.isArray(searchIntentArray) ? searchIntentArray[0] : searchIntentArray"
SearchIntentOf(searchIntentArray) ==
  IF IsArr(searchIntentArray) THEN GetProp(searchIntentArray, Num(0)) ELSE searchIntentArray
WebSearchQuery(searchIntentArray, items) ==
  IF AnyNullish(items) THEN Null
  ELSE Obj(<<E("input", SearchInput(SearchIntentOf(searchIntentArray))),
             E("results", Arr([i \in 1..Len(items) |-> SearchResult(items[i])]))>>)
SearchResultsOf(toolCalls, searchResultArray) ==
  IF ~Truthy(searchResultArray) \/ ~IsArr(searchResultArray) THEN Null
  ELSE WebSearchQuery(Dot(GetProp(toolCalls, Num(0)), "search_intent"), Elems(searchResultArray))
SearchToolCalls(toolCalls) ==
  IF ~Truthy(toolCalls) \/ ~IsArr(toolCalls) \/ ArrLen(toolCalls) < 2 THEN Null
  ELSE SearchResultsOf(toolCalls, Dot(GetProp(toolCalls, Num(1)), "search_result"))
extractWebSearchQueryFromAnswer(answer) == SearchToolCalls(ToolCallsOf(answer))

extractWebSearchQuery(progress) == extractWebSearchQueryFromAnswer(Dot(progress, "answer"))

\* new Date(text) is a valid date: approximated by "the text starts with a digit"
ParsesAsDate(text) == IsDigit(CharAt(text, 1))
inferDataType(value) ==
  CASE value.k = "bool" -> "boolean"
    [] value.k = "num" -> "number"
    [] value.k = "str" -> IF ParsesAsDate(value.s) THEN "date" ELSE "string"
    [] OTHER -> "string"

\* Object.entries(row) with the null and undefined values left out
RowEntries(row) ==
  LET all == IF IsArr(row) THEN [i \in 1..ArrLen(row) |-> E(ToString(i - 1), row.f[i].val)]
             ELSE IF IsObj(row) THEN row.f ELSE <<>>
  IN SelectSeq(all, LAMBDA e : ~IsNullish(e.val))
Field(name, dataType) ==
  Obj(<<E("name", name), E("displayName", name), E("dataType", Str(dataType))>>)
\* index of the first entry the test accepts, 0 if none
RECURSIVE FirstEntry(_, _, _)
FirstEntry(ents, Test(_), i) ==
  IF i > Len(ents) THEN 0
  ELSE IF Test(ents[i]) THEN i ELSE FirstEntry(ents, Test, i + 1)

\* chartConfig[name] && firstRow[chartConfig[name]] !== undefined
HasField(firstRow, field) == Truthy(field) /\ GetProp(firstRow, field).k # "undef"
DimensionOf(firstRow, field) == Field(field, inferDataType(GetProp(firstRow, field)))
DimensionsOf(firstRow, xField, groupField, seriesField) ==
  (IF HasField(firstRow, xField) THEN <<DimensionOf(firstRow, xField)>> ELSE <<>>)
  \o (IF HasField(firstRow, groupField) /\ groupField # xField
      THEN <<DimensionOf(firstRow, groupField)>> ELSE <<>>)
  \o (IF HasField(firstRow, seriesField) /\ seriesField # xField /\ seriesField # groupField
      THEN <<DimensionOf(firstRow, seriesField)>> ELSE <<>>)
\* the dimensions pushed for xField, groupField and seriesField
ConfiguredDimensions(chartConfig, firstRow) ==
  DimensionsOf(firstRow, Dot(chartConfig, "xField"), Dot(chartConfig, "groupField"),
               Dot(chartConfig, "seriesField"))
MeasuresOf(firstRow, yField) ==
  IF HasField(firstRow, yField) THEN <<Field(yField, "number")>> ELSE <<>>
\* the measure pushed for yField
ConfiguredMeasures(chartConfig, firstRow) == MeasuresOf(firstRow, Dot(chartConfig, "yField"))
NamedIn(fields, key) == \E m \in 1..Len(fields) : Dot(fields[m], "name") = Str(key)
IsDimensionCandidate(measures, e) ==
  inferDataType(e.val) # "number" /\ ~NamedIn(measures, e.key)
IsMeasureCandidate(dimensions, e) ==
  inferDataType(e.val) = "number" /\ ~NamedIn(dimensions, e.key)
DimensionAt(dimensions, ents, at) ==
  IF Len(dimensions) = 0 /\ at # 0
  THEN <<Field(Str(ents[at].key), inferDataType(ents[at].val))>> ELSE dimensions
MeasureAt(measures, ents, at) ==
  IF Len(measures) = 0 /\ at # 0 THEN <<Field(Str(ents[at].key), "number")>> ELSE measures
\* dimensions after "if (dimensions.length === 0)": the first non-number field
InferredDimensions(dimensions, measures, ents) ==
  DimensionAt(dimensions, ents,
              FirstEntry(ents, LAMBDA e : IsDimensionCandidate(measures, e), 1))
\* measures after "if (measures.length === 0)": the first number field
InferredMeasures(dimensions, measures, ents) ==
  MeasureAt(measures, ents, FirstEntry(ents, LAMBDA e : IsMeasureCandidate(dimensions, e), 1))
Fields(dimensions, measures) == [dimensions |-> dimensions, measures |-> measures]
InferredFields(dimensions, measures, ents) ==
  Fields(dimensions, InferredMeasures(dimensions, measures, ents))
\* [dimensions, measures] once the fallback inference has run
ChartFields(dimensions, measures, firstRow) ==
  IF Len(dimensions) = 0 \/ Len(measures) = 0
  THEN InferredFields(InferredDimensions(dimensions, measures, RowEntries(firstRow)),
                      measures, RowEntries(firstRow))
  ELSE Fields(dimensions, measures)
ChartDataSchema(json2PlotData, chartType, dataRows, fields) ==
  IF Len(fields.dimensions) = 0 \/ Len(fields.measures) = 0 THEN Null
  ELSE Obj(<<E("chartType", chartType), E("title", Dot(json2PlotData, "title")),
             E("dimensions", Arr(fields.dimensions)), E("measures", Arr(fields.measures)),
             E("rows", dataRows)>>)
ChartOfRows(json2PlotData, chartConfig, dataRows, firstRow) ==
  IF ~Truthy(firstRow) \/ firstRow.k \notin {"obj", "arr"} THEN Null
  ELSE ChartDataSchema(json2PlotData, Dot(chartConfig, "chart_type"), dataRows,
         ChartFields(ConfiguredDimensions(chartConfig, firstRow),
                     ConfiguredMeasures(chartConfig, firstRow), firstRow))
ChartOfData(json2PlotData, chartConfig, dataRows) ==
  IF ~IsArr(dataRows) \/ ArrLen(dataRows) = 0 THEN Null
  ELSE ChartOfRows(json2PlotData, chartConfig, dataRows, GetProp(dataRows, Num(0)))
ChartOfConfig(json2PlotData, chartConfig, chartType) ==
  IF ~Truthy(chartConfig) \/ ~Truthy(chartType) THEN Null
  ELSE IF chartType \notin {Str("Line"), Str("Column"), Str("Pie"), Str("Circle")} THEN Null
  ELSE ChartOfData(json2PlotData, chartConfig,
         Or(Or(Dot(json2PlotData, "data"), Dot(json2PlotData, "data_sample")), EmptyArr))
ChartConfigOf(json2PlotData, chartConfig) ==
  ChartOfConfig(json2PlotData, chartConfig, Dot(chartConfig, "chart_type"))

\* the part extractJson2PlotData and extractChartDataFromArgs share, from
\* "const chartConfig = json2PlotData.chart_config" on
BuildChartData(json2PlotData) ==
  IF ~Truthy(json2PlotData) THEN Null
  ELSE ChartConfigOf(json2PlotData, Dot(json2PlotData, "chart_config"))

\* "if (toolCall?.result || toolCall?.full_result)"
IsJson2PlotAnswer(toolCall) == Truthy(Or(Dot(toolCall, "result"), Dot(toolCall, "full_result")))
\* index of the first tool call the loop stops at, 0 if none
Json2PlotAnswerAt(items) ==
  IF \E i \in 1..Len(items) : IsJson2PlotAnswer(items[i])
  THEN CHOOSE i \in 1..Len(items) :
         IsJson2PlotAnswer(items[i]) /\ \A j \in 1..(i - 1) : ~IsJson2PlotAnswer(items[j])
  ELSE 0
Json2PlotFound(items, at) ==
  IF at = 0 THEN Null
  ELSE BuildChartData(Or(Dot(items[at], "full_result"), Dot(items[at], "result")))
Json2PlotToolCalls(toolCalls) ==
  IF ~Truthy(toolCalls) \/ ~IsArr(toolCalls) THEN Null
  ELSE Json2PlotFound(Elems(toolCalls), Json2PlotAnswerAt(Elems(toolCalls)))
extractJson2PlotData(progress) == Json2PlotToolCalls(ToolCallsOf(Dot(progress, "answer")))

extractChartDataFromArgs(args, answer) ==
  BuildChartData(Or(Dot(answer, "full_result"), Dot(answer, "result")))

\* args.find(test)?.value || '' ; Thrown when the scan reads a property of null
ArgFound(items, at) ==
  IF at = 0 THEN Str("")
  ELSE IF IsNullish(items[at]) THEN Thrown
  ELSE Or(Dot(items[at], "value"), Str(""))
ArgValueIn(items, Test(_)) ==
  ArgFound(items, FirstEntry([i \in 1..Len(items) |-> E("", items[i])],
                             LAMBDA e : IsNullish(e.val) \/ Test(e.val), 1))
ArgValue(args, Test(_)) ==
  IF ~Truthy(args) \/ ~IsArr(args) THEN Str("") ELSE ArgValueIn(Elems(args), Test)

\* "arg.name === 'code' || arg.name === 'script' || arg.type === 'str'"
IsCodeArg(arg) ==
  \/ Dot(arg, "name") \in {Str("code"), Str("script")}
  \/ Dot(arg, "type") = Str("str")
\* the default output literal of the source is rendered in ASCII
ExecuteCodeResult(codeInput, answer) ==
  IF IsThrown(codeInput) \/ ~Truthy(codeInput) THEN Null
  ELSE Obj(<<E("input", codeInput),
             E("output", Or(Chain(answer, <<"result", "result", "stdout">>), Str("done")))>>)
extractExecuteCodeResult(args, answer) == ExecuteCodeResult(ArgValue(args, IsCodeArg), answer)

IsInputArg(arg) == Dot(arg, "name") = Str("input")
Cite(c) ==
  Obj(<<E("id", Or(Dot(c, "id"), Str(""))), E("name", Or(Dot(c, "name"), Str(""))),
        E("type", Or(Dot(c, "type"), Str(""))),
        E("description", Dot(c, "description"))>>)
CitesOf(cites) ==
  IF IsArr(cites) THEN Arr([i \in 1..ArrLen(cites) |-> Cite(cites.f[i].val)]) ELSE EmptyArr
DataDescOf(dataDesc) ==
  IF Truthy(dataDesc)
  THEN Obj(<<E("return_records_num", Dot(dataDesc, "return_records_num")),
             E("real_records_num", Dot(dataDesc, "real_records_num"))>>)
  ELSE Undef
DataOf(data) == IF IsArr(data) THEN data ELSE EmptyArr
Text2SqlResult(queryInput, text2SqlData, cites, result) ==
  IF ~Truthy(queryInput) THEN Null
  ELSE IF IsArr(cites) /\ AnyNullish(Elems(cites)) THEN Null
  ELSE Obj(<<E("input", queryInput),
             E("sql", Or(Dot(text2SqlData, "sql"), Str(""))),
             E("data", DataOf(Or(Dot(text2SqlData, "data"), EmptyArr))),
             E("cites", CitesOf(cites)),
             E("title", Or(Dot(text2SqlData, "title"), Str(""))),
             E("message", Or(Dot(text2SqlData, "message"), Str(""))),
             E("dataDesc", DataDescOf(Dot(result, "data_desc"))),
             E("explanation", Dot(text2SqlData, "explanation"))>>)
Text2SqlData(queryInput, text2SqlData, result) ==
  Text2SqlResult(queryInput, text2SqlData, Or(Dot(text2SqlData, "cites"), EmptyArr), result)
Text2SqlAnswer(queryInput, fullResult, result) ==
  IF IsThrown(queryInput) THEN Null
  ELSE IF ~Truthy(fullResult) /\ ~Truthy(result) THEN Null
  ELSE Text2SqlData(queryInput, Or(fullResult, result), result)
extractText2SqlResult(args, answer) ==
  Text2SqlAnswer(ArgValue(args, IsInputArg), Dot(answer, "full_result"), Dot(answer, "result"))

\* the "tool call" text prefix of the source is rendered in ASCII
ToolCallPrefix == "tool: "
\* "if (x) this.appendXBlock(messageId, x)" for each block kind
WebSearchIf(u, messageId, searchQuery) ==
  IF Truthy(searchQuery) THEN appendWebSearchBlock(u, messageId, searchQuery) ELSE u
Json2PlotIf(u, messageId, chartData) ==
  IF Truthy(chartData) THEN appendJson2PlotBlock(u, messageId, chartData) ELSE u
ExecuteCodeIf(u, messageId, executeCodeResult) ==
  IF Truthy(executeCodeResult) THEN appendExecuteCodeBlock(u, messageId, executeCodeResult) ELSE u
Text2SqlIf(u, messageId, text2SqlResult) ==
  IF Truthy(text2SqlResult) THEN appendText2SqlBlock(u, messageId, text2SqlResult) ELSE u
SkillNamed(u, skillName, args, answer, messageId) ==
  IF ~Truthy(skillName) THEN u
  ELSE IF skillName = Str("zhipu_search_tool")
  THEN WebSearchIf(u, messageId, extractWebSearchQueryFromAnswer(answer))
  ELSE IF skillName = Str("json2plot")
  THEN Json2PlotIf(u, messageId, extractChartDataFromArgs(args, answer))
  ELSE IF skillName = Str("execute_code")
  THEN ExecuteCodeIf(u, messageId, extractExecuteCodeResult(args, answer))
  ELSE IF skillName = Str("text2sql")
  THEN Text2SqlIf(u, messageId, extractText2SqlResult(args, answer))
  ELSE appendMarkdownBlock(u, messageId, Str(ToolCallPrefix \o ToStr(skillName)))
processSkillExecution(u, skillInfo, answer, messageId) ==
  SkillNamed(u, Dot(skillInfo, "name"), Dot(skillInfo, "args"), answer, messageId)

processFinalAnswerTypeOther(u, content, messageId) ==
  IF Dot(content, "stage") = Str("skill")
  THEN processSkillExecution(u, Dot(content, "skill_info"), Dot(content, "answer"), messageId)
  ELSE u

processMiddleAnswerProgress(u, content, messageId) ==
  IF Dot(content, "stage") = Str("skill")
  THEN processSkillExecution(u, Dot(content, "skill_info"), Dot(content, "answer"), messageId)
  ELSE IF Dot(content, "stage") = Str("llm")
  THEN appendMarkdownBlock(u, messageId, Or(Dot(content, "answer"), Str("")))
  ELSE u

(***************************************************************************)
(* Whitelist router and reducer of the agent platform (DIPBase)            *)
(***************************************************************************)
\* the rendered path of a key array, or Thrown when key has no map method
keyToJSONPath(key) ==
  LET segs == KeySeq(key)
      Part(i) == IF IsNum(segs[i]) THEN "[" \o ToString(segs[i].n) \o "]"
                 ELSE IF i = 1 THEN (IF IsNullish(segs[i]) THEN "" ELSE ToStr(segs[i]))
                 ELSE "." \o ToStr(segs[i])
      Join[i \in 0..Len(segs)] == IF i = 0 THEN "" ELSE Join[i - 1] \o Part(i)
  IN IF ~IsArr(key) THEN Thrown ELSE Str(ReplaceDotBracket(Join[Len(segs)]))

RECURSIVE AllDigits(_, _)
AllDigits(s, i) == IF i > Len(s) THEN TRUE ELSE IsDigit(CharAt(s, i)) /\ AllDigits(s, i + 1)
ProgressPrefix == "message.content.middle_answer.progress["
\* /^message\.content\.middle_answer\.progress\[\d+\]<tail>$/.test(jsonPath)
MatchesProgress(jsonPath, tail) ==
  LET rest == SubSeq(jsonPath, Len(ProgressPrefix) + 1, Len(jsonPath))
      close == IndexOf(rest, "]", 1)
  IN /\ startsWith(jsonPath, ProgressPrefix)
     /\ close > 1
     /\ AllDigits(SubSeq(rest, 1, close - 1), 1)
     /\ SubSeq(rest, close, Len(rest)) = "]" \o tail
progressArrayPattern(jsonPath) == MatchesProgress(jsonPath, "")
progressArrayAnswerPattern(jsonPath) == MatchesProgress(jsonPath, ".answer")

\* the table keys of entries, each with the name of its postProcess
WhitelistEntries ==
  [key \in {"upsert:error", "upsert:message",
            "append:message.content.final_answer.answer.text",
            "upsert:message.content.final_answer.answer_type_other",
            "append:message.content.middle_answer.progress"} |->
     CASE key = "append:message.content.final_answer.answer.text" -> "finalAnswerText"
       [] key = "upsert:message.content.final_answer.answer_type_other" -> "answerTypeOther"
       [] key = "append:message.content.middle_answer.progress" -> "progress"
       [] OTHER -> "none"]

\* a lookup that knows the table but not the two patterns
getWhitelistEntryExact(action, jsonPath) ==
  IF (action \o ":" \o jsonPath) \in DOMAIN WhitelistEntries
  THEN WhitelistEntries[action \o ":" \o jsonPath]
  ELSE "null"
\* the postProcess of the matching entry ("none": an entry without postProcess),
\* "null" when there is no entry
getWhitelistEntryAny(action, jsonPath) == "none"
getWhitelistEntry(action, jsonPath) ==
  LET key == action \o ":" \o jsonPath
  IN IF action = "append" /\ progressArrayPattern(jsonPath)
     THEN WhitelistEntries["append:message.content.middle_answer.progress"]
     ELSE IF action = "append" /\ progressArrayAnswerPattern(jsonPath) THEN "progressAnswer"
     ELSE IF key \in DOMAIN WhitelistEntries THEN WhitelistEntries[key]
     ELSE "null"

PP(u, threw) == [u |-> u, threw |-> threw]

\* the three "if (content?.skill_info?.name === ...)" statements of the entry
ProgressSkillBlocks(u, name, content, messageId) ==
  IF name = Str("zhipu_search_tool") THEN WebSearchIf(u, messageId, extractWebSearchQuery(content))
  ELSE IF name = Str("json2plot") THEN Json2PlotIf(u, messageId, extractJson2PlotData(content))
  ELSE IF name = Str("text2sql")
  THEN Text2SqlIf(u, messageId,
         extractText2SqlResult(Chain(content, <<"skill_info", "args">>), Dot(content, "answer")))
  ELSE u
ProgressStaged(u, stage, content, messageId) ==
  IF stage = Str("skill")
  THEN ProgressSkillBlocks(u, Chain(content, <<"skill_info", "name">>), content, messageId)
  ELSE IF stage = Str("llm")
  THEN appendMarkdownBlock(u, messageId, Or(Dot(content, "answer"), Str("")))
  ELSE u
\* postProcess of 'append:message.content.middle_answer.progress'
ProgressPostProcess(u, content, messageId) ==
  processMiddleAnswerProgress(ProgressStaged(u, Dot(content, "stage"), content, messageId),
                              content, messageId)

LastProgress(u, lastProgress, messageId) ==
  IF IsNullish(lastProgress) THEN PP(u, TRUE)
  ELSE IF Dot(lastProgress, "stage") = Str("llm")
  THEN PP(appendMarkdownBlock(u, messageId, Or(Dot(lastProgress, "answer"), Str(""))), FALSE)
  ELSE PP(u, FALSE)
ProgressList(u, progress, length, messageId) ==
  IF ~(IsNum(length) /\ length.n > 0) THEN PP(u, FALSE)
  ELSE LastProgress(u, GetProp(progress, Num(length.n - 1)), messageId)
ProgressOf(u, progress, messageId) ==
  ProgressList(u, progress, GetProp(progress, Str("length")), messageId)
\* postProcess of the progress[N].answer pattern
ProgressAnswerPostProcess(u, assistantMessage, messageId) ==
  ProgressOf(u, Or(Chain(assistantMessage, <<"message", "content", "middle_answer", "progress">>),
                   EmptyArr), messageId)

postProcess(entry, u, assistantMessage, content, messageId) ==
  CASE entry = "finalAnswerText" ->
         PP(appendMarkdownBlock(u, messageId,
              Or(Chain(assistantMessage, <<"message", "content", "final_answer", "answer", "text">>),
                 Str(""))), FALSE)
    [] entry = "answerTypeOther" -> PP(processFinalAnswerTypeOther(u, content, messageId), FALSE)
    [] entry = "progress" -> PP(ProgressPostProcess(u, content, messageId), FALSE)
    [] entry = "progressAnswer" -> ProgressAnswerPostProcess(u, assistantMessage, messageId)
    [] OTHER -> PP(u, FALSE)

\* {seq_id: o.seq_id || o.seq, key: o.key, action: o.action, content: o.content}
PickEventMessage(o) ==
  Obj(<<E("seq_id", Or(Dot(o, "seq_id"), Dot(o, "seq"))),
        E("key", Dot(o, "key")), E("action", Dot(o, "action")),
        E("content", Dot(o, "content"))>>)
ParsedEventData(raw, parsed) ==
  IF IsThrown(parsed) \/ IsNullish(parsed) THEN raw ELSE PickEventMessage(parsed)
RawEventData(raw, data) ==
  IF Truthy(data)
  THEN ParsedEventData(raw, IF IsStr(data) THEN JSONParse(data.s) ELSE JSONClone(data))
  ELSE PickEventMessage(raw)
\* the EventMessage {seq_id, key, action, content} of a raw event, Thrown when
\* raw is null or undefined
parseEventMessage(raw) == IF IsNullish(raw) THEN Thrown ELSE RawEventData(raw, Dot(raw, "data"))

R(tree, u) == [tree |-> tree, u |-> u]

EndResultReset(prev, u) == R(EmptyObj, u)
\* if (em.action === 'end') return prev
EndResult(prev, u) == R(prev, u)

\* the tree returned once postProcess has run, prev when it threw
PostProcessed(prev, assistantMessage, post) ==
  IF post.threw THEN R(prev, post.u) ELSE R(assistantMessage, post.u)
\* from "if (whitelistEntry.postProcess)" on
ApplyPostProcess(whitelistEntry, prev, assistantMessage, content, messageId, u) ==
  IF IsThrown(assistantMessage) THEN R(prev, u)
  ELSE PostProcessed(prev, assistantMessage,
                     postProcess(whitelistEntry, u, assistantMessage, content, messageId))
\* a reducer that patches prev itself
WorkingCopyAliased(prev) == [tree |-> Or(prev, EmptyObj), shared |-> Truthy(prev)]
\* "let assistantMessage = JSON.parse(JSON.stringify(prev || {}))": the tree
\* the patch is applied to, and whether its nodes are the nodes of prev
WorkingCopy(prev) == [tree |-> JSONClone(Or(prev, EmptyObj)), shared |-> FALSE]
\* from "let assistantMessage = JSON.parse(JSON.stringify(prev || {}))" on
ApplyAction(whitelistEntry, action, key, content, prev, messageId, u) ==
  ApplyPostProcess(whitelistEntry, prev,
    IF action = Str("upsert") THEN applyUpsert(WorkingCopy(prev).tree, KeySeq(key), content)
    ELSE IF action = Str("append")
    THEN applyAppend(WorkingCopy(prev).tree, KeySeq(key), content)
    ELSE WorkingCopy(prev).tree,
    content, messageId, u)
\* from "if (!whitelistEntry)" on
Whitelisted(whitelistEntry, em, prev, messageId, u) ==
  IF whitelistEntry = "null" THEN R(prev, u)
  ELSE ApplyAction(whitelistEntry, Dot(em, "action"), Or(Dot(em, "key"), EmptyArr),
                   Dot(em, "content"), prev, messageId, u)
\* a catch block that returns an empty tree instead of prev
RoutedResetting(em, jsonPath, prev, messageId, u) ==
  IF IsThrown(jsonPath) THEN R(EmptyObj, u)
  ELSE Whitelisted(getWhitelistEntry(ToStr(Or(Dot(em, "action"), Str(""))), jsonPath.s),
                   em, prev, messageId, u)
\* from "const jsonPath = this.keyToJSONPath(em.key || [])" on
Routed(em, jsonPath, prev, messageId, u) ==
  IF IsThrown(jsonPath) THEN R(prev, u)
  ELSE Whitelisted(getWhitelistEntry(ToStr(Or(Dot(em, "action"), Str(""))), jsonPath.s),
                   em, prev, messageId, u)
\* from "if (em.action === 'end')" on
ReduceEventMessage(em, prev, messageId, u) ==
  IF IsThrown(em) THEN R(prev, u)
  ELSE IF Dot(em, "action") = Str("end") THEN EndResult(prev, u)
  ELSE Routed(em, keyToJSONPath(Or(Dot(em, "key"), EmptyArr)), prev, messageId, u)
ReduceParsed(parsed, prev, messageId, u) ==
  ReduceEventMessage(IF IsThrown(parsed) THEN Thrown ELSE parseEventMessage(parsed),
                     prev, messageId, u)
\* reduceAssistantMessage(eventMessage, prev, messageId) run against the UI state u:
\* the returned tree and the UI state after the calls it made
reduceAssistantMessage(eventMessage, prev, messageId, u) ==
  ReduceParsed(IF IsStr(eventMessage) THEN JSONParse(eventMessage.s) ELSE eventMessage,
               prev, messageId, u)

\* The tree prev as the caller sees it once reduceAssistantMessage has
\* returned: the nodes the patch interpreter wrote to are nodes of prev only
\* if the working copy shares them.
PrevAfterApply(copy, action, key, content, prev) ==
  IF copy.shared THEN ArgAfterApply(action, copy.tree, KeySeq(key), content) ELSE prev
PrevAfterRouted(em, jsonPath, prev) ==
  IF IsThrown(jsonPath) THEN prev
  ELSE IF getWhitelistEntry(ToStr(Or(Dot(em, "action"), Str(""))), jsonPath.s) = "null" THEN prev
  ELSE PrevAfterApply(WorkingCopy(prev), Dot(em, "action"), Or(Dot(em, "key"), EmptyArr),
                      Dot(em, "content"), prev)
PrevAfterEvent(em, prev) ==
  IF IsThrown(em) THEN prev
  ELSE IF Dot(em, "action") = Str("end") THEN prev
  ELSE PrevAfterRouted(em, keyToJSONPath(Or(Dot(em, "key"), EmptyArr)), prev)
PrevAfterParsed(parsed, prev) ==
  PrevAfterEvent(IF IsThrown(parsed) THEN Thrown ELSE parseEventMessage(parsed), prev)
PrevAfterReduce(eventMessage, prev) ==
  PrevAfterParsed(IF IsStr(eventMessage) THEN JSONParse(eventMessage.s) ELSE eventMessage, prev)

(***************************************************************************)
(* Reducer of the bot platform (ChatKitCoze): the tree is the text buffer  *)
(***************************************************************************)
\* prevBuffer + data.content
Plus(a, b) == Str(ToStr(a) \o ToStr(b))

\* "if (data.conversation_id && data.conversation_id !== this.state.conversationID)"
RecordConversation(u, conv) ==
  IF Truthy(conv) /\ ToStr(conv) # u.conversationID
  THEN [u EXCEPT !.conversationID = ToStr(conv)] ELSE u
\* the text buffer with the UI updated to show it
Shown(text, messageId, u) == R(text, appendMarkdownBlock(u, messageId, text))
\* a reducer that shows the content of every message type
CozeEventAnyType(event, content, isAnswer, prev, messageId, u) ==
  IF event = Str("conversation.message.delta") /\ Truthy(content)
  THEN Shown(Plus(prev, content), messageId, u)
  ELSE IF event = Str("conversation.message.completed") /\ Truthy(content)
  THEN Shown(content, messageId, u)
  ELSE R(prev, u)
\* the branches on em.event, u the UI state with the conversation id recorded
CozeEvent(event, content, isAnswer, prev, messageId, u) ==
  IF event = Str("conversation.message.delta") /\ isAnswer
  THEN Shown(Plus(prev, content), messageId, u)
  ELSE IF event = Str("conversation.message.completed") /\ isAnswer
  THEN Shown(content, messageId, u)
  ELSE R(prev, u)
CozeData(event, data, prev, messageId, u) ==
  IF IsThrown(data) \/ IsNullish(data) THEN R(prev, u)
  ELSE CozeEvent(event, Dot(data, "content"),
                 Truthy(Dot(data, "content")) /\ Dot(data, "type") = Str("answer"),
                 prev, messageId, RecordConversation(u, Dot(data, "conversation_id")))
CozeText(event, text, prev, messageId, u) ==
  IF ~IsStr(text) THEN R(prev, u) ELSE CozeData(event, JSONParse(text.s), prev, messageId, u)
cozeReduceAssistantMessage(em, prev, messageId, u) ==
  CozeText(Dot(em, "event"), Dot(em, "data"), prev, messageId, u)

(***************************************************************************)
(* Frame decoder: handleStreamResponse (ChatKitBase)                       *)
(***************************************************************************)
\* Bytes are modelled as characters.  One two-byte UTF-8 character is
\* included: its lead byte is written "~", its continuation byte "%", and the
\* character they decode to "@"; "?" stands for U+FFFD.
LeadByte == "~"
ContByte == "%"
\* TextDecoder.decode(value, {stream: true}) with carry the bytes held back by
\* the previous call: [text, carry]
\* the text the byte at position i contributes
Utf8At(bytes, i) ==
  IF CharAt(bytes, i) = LeadByte THEN
    (IF i = Len(bytes) THEN ""
     ELSE IF CharAt(bytes, i + 1) = ContByte THEN "@" ELSE "?")
  ELSE IF CharAt(bytes, i) = ContByte THEN
    (IF i > 1 /\ CharAt(bytes, i - 1) = LeadByte THEN "" ELSE "?")
  ELSE CharAt(bytes, i)
\* the text of the bytes at positions lo..hi
RECURSIVE Utf8Text(_, _, _)
Utf8Text(bytes, lo, hi) ==
  IF lo > hi THEN ""
  ELSE IF lo = hi THEN Utf8At(bytes, lo)
  ELSE Utf8Text(bytes, lo, (lo + hi) \div 2) \o Utf8Text(bytes, (lo + hi) \div 2 + 1, hi)
Utf8Carry(bytes) == IF CharAt(bytes, Len(bytes)) = LeadByte THEN LeadByte ELSE ""
Utf8Decoded(bytes) == [text |-> Utf8Text(bytes, 1, Len(bytes)), carry |-> Utf8Carry(bytes)]
\* decode(value) without {stream: true}: every chunk is decoded on its own and
\* an unfinished character at its end becomes U+FFFD
decodeWithoutStream(carry, value) ==
  [text |-> Utf8Text(value, 1, Len(value)) \o (IF Utf8Carry(value) = "" THEN "" ELSE "?"),
   carry |-> ""]
decode(carry, value) == Utf8Decoded(carry \o value)

\* text.split('\n')
RECURSIVE split(_)
split(text) ==
  LET at == IndexOf(text, "\n", 1)
  IN IF at = 0 THEN <<text>>
     ELSE <<SubSeq(text, 1, at - 1)>> \o split(SubSeq(text, at + 1, Len(text)))

\* the reducer of the mounted adapter
Reduce(adapter, eventMessage, prev, messageId, u) ==
  IF adapter = "coze" THEN cozeReduceAssistantMessage(eventMessage, prev, messageId, u)
  ELSE reduceAssistantMessage(eventMessage, prev, messageId, u)

\* One delivered frame as the log keeps it: the EventStreamMessage handed to the
\* reducer, whether the returned tree differs from the previous one, and the
\* number of append*Block calls the reduction made.
Frame(event, data, changed, ncalls) ==
  [event |-> event, data |-> data, changed |-> changed, ncalls |-> ncalls]

\* a loop that keeps the event type after the reducer returned
DeliveredKeepingEvent(h, event, dataStr, r) ==
  [currentEvent |-> h.currentEvent,
   assistantMessage |-> r.tree,
   u |-> r.u,
   frames |-> Append(h.frames,
                Frame(event, dataStr, r.tree # h.assistantMessage,
                      Len(r.u.calls) - Len(h.u.calls)))]
\* loop state of handleStreamResponse: h = [currentEvent, assistantMessage, u, frames]
\* the loop state after the reducer returned r for the frame (event, dataStr)
Delivered(h, event, dataStr, r) ==
  [currentEvent |-> "",
   assistantMessage |-> r.tree,
   u |-> r.u,
   frames |-> Append(h.frames,
                Frame(event, dataStr, r.tree # h.assistantMessage,
                      Len(r.u.calls) - Len(h.u.calls)))]
Deliver(adapter, messageId, h, event, dataStr) ==
  Delivered(h, event, dataStr,
    Reduce(adapter, Obj(<<E("event", event), E("data", Str(dataStr))>>),
           h.assistantMessage, messageId, h.u))
\* the try block of a data: line, data the parsed dataStr
\* "currentEvent || data.event" reads data only when currentEvent is empty: a
\* null payload then raises and the line is skipped by the catch block
DataParsed(adapter, messageId, h, dataStr, data) ==
  IF IsThrown(data) THEN h
  ELSE IF h.currentEvent # "" THEN Deliver(adapter, messageId, h, Str(h.currentEvent), dataStr)
  ELSE IF IsNullish(data) THEN h
  ELSE Deliver(adapter, messageId, h,
         Or(Or(Dot(data, "event"), Dot(data, "type")), Str("")), dataStr)
DataLine(adapter, messageId, h, dataStr) ==
  IF dataStr = "[DONE]" THEN h
  ELSE DataParsed(adapter, messageId, h, dataStr, JSONParse(dataStr))
TrimmedLine(adapter, messageId, h, trimmedLine) ==
  IF trimmedLine = "" THEN h
  ELSE IF startsWith(trimmedLine, "event:")
  THEN [h EXCEPT !.currentEvent = trim(SubSeq(trimmedLine, 7, Len(trimmedLine)))]
  ELSE IF startsWith(trimmedLine, "data:")
  THEN DataLine(adapter, messageId, h, trim(SubSeq(trimmedLine, 6, Len(trimmedLine))))
  ELSE h
\* body of "for (const line of lines)" for one line
ProcessLine(adapter, messageId, h, line) == TrimmedLine(adapter, messageId, h, trim(line))

RECURSIVE ProcessLines(_, _, _, _, _)
ProcessLines(adapter, messageId, h, lines, i) ==
  IF i > Len(lines) THEN h
  ELSE ProcessLines(adapter, messageId, ProcessLine(adapter, messageId, h, lines[i]), lines, i + 1)

\* the decoder state once the lines of buffer + chunk have been split off
Buffered(adapter, messageId, d, dec, lines) ==
  [carry |-> dec.carry,
   buffer |-> lines[Len(lines)],
   h |-> ProcessLines(adapter, messageId, d.h, SubSeq(lines, 1, Len(lines) - 1), 1)]
Decoded(adapter, messageId, d, dec) ==
  Buffered(adapter, messageId, d, dec, split(d.buffer \o dec.text))
\* one iteration of the while loop for a chunk the reader delivered:
\* d = [carry, buffer, h] is the decoder state
ProcessChunk(adapter, messageId, d, value) ==
  Decoded(adapter, messageId, d, decode(d.carry, value))

(***************************************************************************)
(* State                                                                   *)
(***************************************************************************)
VARIABLES
  messages,          \* state.messages: the message list of the UI state store
  conversationID,    \* state.conversationID
  calls,             \* log of the append*Block invocations
  errors,            \* number of state updaters that threw
  assistantMessage,  \* the tree (agent platform) or text buffer (bot platform) being folded
  patchLog,          \* log of the reductions made by direct reducer calls
  adapter,           \* "dip" or "coze": the adapter handleStreamResponse runs with
  input,             \* the bytes the transport will deliver
  pos,               \* number of bytes the reader has delivered
  carry,             \* bytes the TextDecoder holds back
  buffer,            \* handleStreamResponse: text of the incomplete last line
  currentEvent,      \* handleStreamResponse: event type of the last event: line
  frames,            \* log of the frames handed to the reducer
  hsrPc,             \* handleStreamResponse: "idle", "reading", "returned", "rejected"
  releases,          \* number of reader.releaseLock() calls
  splitLine,         \* history: some chunk so far ended inside a line
  rtPc,              \* executeWithTokenRefresh: "idle", "call1", "refresh", "call2", "resolved", "rejected"
  token,             \* this.token
  hasRefresh,        \* whether this.refreshToken is configured
  apiCalls,          \* apiCall() invocations of the running wrapper invocation
  refreshCalls,      \* this.refreshToken() invocations of the running wrapper invocation
  attempts,          \* outcome of each apiCall() of the invocation: Str("ok") or the error object
  refreshOutcome,    \* "none", "resolved" or "rejected"
  rtResult,          \* what the wrapper settled with: Str("ok") or the error it rejected with
  invocations,       \* number of wrapper invocations that have returned
  sentTokens,        \* the value of this.token each apiCall() of the invocation read
  refreshedWith,     \* the token this.refreshToken() resolved with, "" if it has not
  inflight,          \* the wrapper invocations in flight at the same time, by request
  sendPc,            \* send: "idle", "generating", "fetching", "streaming", "resolved", "rejected"
  createPc,          \* createConversation: "idle", "onboarding", "resolved", "rejected"
  previous,          \* ids of the messages of the conversation createConversation left
  generated,         \* send: how the create-session request ended and what generateConversation settled with
  sendMessageCalls,  \* send: the conversationID argument of each sendMessage call
  isSending,         \* state.isSending
  streamingMessageId, \* state.streamingMessageId
  thrown,            \* the error sendMessage rejected with, Undef if none
  sendResult,        \* what send settled with: Ok or the error it rejected with
  lookup,            \* the last direct getWhitelistEntry call: its number, arguments and result
  sends,             \* the send calls of a session, by call: position, arguments, reader, result
  stop,              \* handleStop: position, the conversationID it read, its terminateConversation calls
  loadPc,            \* loadConversation: "idle", "loading", "resolved", "rejected"
  applicationContext, \* state.applicationContext
  visible,           \* props.visible
  mounts,            \* number of componentDidMount calls
  updates,           \* number of componentDidUpdate calls that saw props.visible change
  hasInitialized,    \* this.hasInitialized
  isInitializing,    \* this.isInitializing
  isLoadingOnboarding, \* state.isLoadingOnboarding
  initializations,   \* the initializeConversation calls so far: position of each
  createCalls        \* number of createConversation calls made by initializeConversation

uiVars == <<messages, conversationID, calls, errors>>
streamVars ==
  <<adapter, input, pos, carry, buffer, currentEvent, frames, hsrPc, releases, splitLine>>
retryVars ==
  <<rtPc, token, hasRefresh, apiCalls, refreshCalls, attempts, refreshOutcome, rtResult, invocations,
    sentTokens, refreshedWith>>
raceVars == <<inflight>>
convVars ==
  <<sendPc, createPc, previous, generated, sendMessageCalls, isSending, streamingMessageId,
    thrown, sendResult>>
lookupVars == <<lookup>>
sessionVars == <<sends, stop, loadPc, applicationContext>>
initVars ==
  <<visible, mounts, updates, hasInitialized, isInitializing, isLoadingOnboarding,
    initializations, createCalls>>
vars ==
  <<uiVars, assistantMessage, patchLog, streamVars, retryVars, raceVars, convVars, lookupVars,
    sessionVars, initVars>>

UI == [messages |-> messages, conversationID |-> conversationID, calls |-> calls, errors |-> errors]
SetUI(u) ==
  /\ messages' = u.messages
  /\ conversationID' = u.conversationID
  /\ calls' = u.calls
  /\ errors' = u.errors

UserMessageId == "user-1"
AssistantMessageId == "assistant-1"
\* the list once send has added the user message and sendMessage the empty assistant message
StreamingMessages ==
  <<ChatMessage(UserMessageId, <<Block(BlockTypeTEXT, Str("hello"))>>),
    ChatMessage(AssistantMessageId, <<>>)>>
UIInit ==
  /\ messages = StreamingMessages
  /\ conversationID = ""
  /\ calls = <<>>
  /\ errors = 0
StreamIdle ==
  /\ adapter = "dip"
  /\ input = ""
  /\ pos = 0
  /\ carry = ""
  /\ buffer = ""
  /\ currentEvent = ""
  /\ frames = <<>>
  /\ hsrPc = "idle"
  /\ releases = 0
  /\ splitLine = FALSE
RetryIdle ==
  /\ rtPc = "idle"
  /\ token = "token-0"
  /\ hasRefresh = FALSE
  /\ apiCalls = 0
  /\ refreshCalls = 0
  /\ attempts = <<>>
  /\ refreshOutcome = "none"
  /\ rtResult = Undef
  /\ invocations = 0
  /\ sentTokens = <<>>
  /\ refreshedWith = ""
RaceIdle == inflight = <<>>
NoLookup == [n |-> 0, action |-> "", jsonPath |-> "", entry |-> "null"]
LookupIdle == lookup = NoLookup
NoStop == [pc |-> "idle", calls |-> <<>>, returned |-> 0, last |-> "none"]
SessionIdle ==
  /\ sends = <<>>
  /\ stop = NoStop
  /\ loadPc = "idle"
  /\ applicationContext = Undef
InitIdle ==
  /\ visible = FALSE
  /\ mounts = 0
  /\ updates = 0
  /\ hasInitialized = FALSE
  /\ isInitializing = FALSE
  /\ isLoadingOnboarding = FALSE
  /\ initializations = <<>>
  /\ createCalls = 0
ConvIdle ==
  /\ sendPc = "idle"
  /\ createPc = "idle"
  /\ previous = {}
  /\ generated = [request |-> "none", value |-> Undef]
  /\ sendMessageCalls = <<>>
  /\ isSending = FALSE
  /\ streamingMessageId = Null
  /\ thrown = Undef
  /\ sendResult = Undef

\* content of the message with the given id, <<>> if there is none
ContentOf(msgs, messageId) ==
  IF \E i \in 1..Len(msgs) : msgs[i].messageId = messageId
  THEN msgs[CHOOSE i \in 1..Len(msgs) : msgs[i].messageId = messageId].content
  ELSE <<>>

(***************************************************************************)
(* Specification SpecPatch: the agent platform reducer called directly     *)
(* with patch objects {key, action, content}                               *)
(***************************************************************************)
MaxPatches == 2

Key(segs) == Arr(segs)
ProgressKey == Key(<<Str("message"), Str("content"), Str("middle_answer"), Str("progress")>>)
ProgressAt(i) == Key(<<Str("message"), Str("content"), Str("middle_answer"), Str("progress"), Num(i)>>)
ProgressAnswerAt(i) ==
  Key(<<Str("message"), Str("content"), Str("middle_answer"), Str("progress"), Num(i), Str("answer")>>)
FinalTextKey == Key(<<Str("message"), Str("content"), Str("final_answer"), Str("answer"), Str("text")>>)
ThinkingKey == Key(<<Str("message"), Str("content"), Str("final_answer"), Str("thinking")>>)
MessageKey == Key(<<Str("message")>>)
ExtraKey == Key(<<Str("message"), Str("ext"), Num(1)>>)
PatchKeys ==
  {ProgressAt(0), ProgressAnswerAt(0), FinalTextKey, ThinkingKey, MessageKey, ExtraKey}

LlmEntry(answer) == Obj(<<E("stage", Str("llm")), E("answer", Str(answer))>>)
SearchAnswer ==
  Obj(<<E("choices", Arr(<<Obj(<<E("message", Obj(<<E("tool_calls", Arr(<<
     Obj(<<E("search_intent", Arr(<<Obj(<<E("query", Str("tla"))>>)>>))>>),
     Obj(<<E("search_result", Arr(<<Obj(<<E("title", Str("t")), E("link", Str("l"))>>)>>))>>)
  >>))>>))>>)>>))>>)
SearchEntry ==
  Obj(<<E("stage", Str("skill")), E("skill_info", Obj(<<E("name", Str("zhipu_search_tool"))>>)),
        E("answer", SearchAnswer)>>)
\* a message object that carries an empty progress list
MessageWithProgress ==
  Obj(<<E("content", Obj(<<E("middle_answer", Obj(<<E("progress", EmptyArr)>>))>>))>>)
\* a message object whose progress list ends with null
MessageWithNullProgress ==
  Obj(<<E("content", Obj(<<E("middle_answer", Obj(<<E("progress", Arr(<<EmptyObj, Null>>))>>))>>))>>)
\* a message object whose progress list holds two llm entries
MessageWithTwoEntries ==
  Obj(<<E("content", Obj(<<E("middle_answer",
     Obj(<<E("progress", Arr(<<LlmEntry("4"), LlmEntry("x")>>))>>))>>))>>)
PatchContents == {Str("42"), LlmEntry("42"), SearchEntry, MessageWithProgress}

Patch(key, action, content) ==
  Obj(<<E("key", key), E("action", Str(action)), E("content", content)>>)
Patches ==
  {Patch(key, action, content) : key \in PatchKeys, action \in {"upsert", "append"},
                                 content \in PatchContents}
  \cup {Patch(key, "end", content) : key \in {Key(<<>>), FinalTextKey},
                                     content \in {Null, Str("42")}}
  \cup {Patch(MessageKey, "upsert", MessageWithNullProgress),
        Patch(ProgressKey, "append", LlmEntry("42")),
        Patch(FinalTextKey, "append", Str("He")),
        Patch(MessageKey, "upsert", MessageWithTwoEntries)}

\* one entry of patchLog
Reduction(patch, prev, r, u) ==
  [patch |-> patch, prev |-> prev, next |-> r.tree,
   calls |-> SubSeq(r.u.calls, Len(u.calls) + 1, Len(r.u.calls)),
   before |-> ContentOf(u.messages, AssistantMessageId),
   after |-> ContentOf(r.u.messages, AssistantMessageId)]

PatchInit ==
  /\ UIInit
  /\ StreamIdle
  /\ RetryIdle
  /\ RaceIdle
  /\ ConvIdle
  /\ LookupIdle
  /\ SessionIdle
  /\ InitIdle
  /\ assistantMessage = EmptyObj
  /\ patchLog = <<>>

\* assistantMessage = this.reduceAssistantMessage(patch, assistantMessage, messageId)
Reduced(patch, r) ==
  /\ Len(patchLog) < MaxPatches
  /\ assistantMessage' = r.tree
  /\ SetUI(r.u)
  /\ patchLog' = Append(patchLog, Reduction(patch, assistantMessage, r, UI))
  /\ UNCHANGED <<streamVars, retryVars, raceVars, convVars, lookupVars, sessionVars, initVars>>
ReducePatch(patch) ==
  Reduced(patch, reduceAssistantMessage(patch, assistantMessage, AssistantMessageId, UI))

PatchNext == \E patch \in Patches : ReducePatch(patch)
SpecPatch == PatchInit /\ [][PatchNext]_vars

\* the patch of a log entry
ActionOf(e) == Dot(e.patch, "action")
PathOf(e) == keyToJSONPath(Dot(e.patch, "key")).s
\* the key path is not in the exact table and matches neither progress pattern
NotWhitelisted(e) ==
  /\ (ToStr(ActionOf(e)) \o ":" \o PathOf(e)) \notin DOMAIN WhitelistEntries
  /\ ~progressArrayPattern(PathOf(e))
  /\ ~progressArrayAnswerPattern(PathOf(e))
\* the previous tree with the patch of the entry applied at its key path
Applied(e) ==
  IF ActionOf(e) = Str("upsert")
  THEN applyUpsert(JSONClone(e.prev), KeySeq(Dot(e.patch, "key")), Dot(e.patch, "content"))
  ELSE applyAppend(JSONClone(e.prev), KeySeq(Dot(e.patch, "key")), Dot(e.patch, "content"))
LogEntries == {patchLog[i] : i \in 1..Len(patchLog)}

C8_First == Patch(ProgressAt(0), "append", LlmEntry("42"))
C8_Second == Patch(ProgressAnswerAt(0), "append", Str("42"))
\* C8: from the empty tree and an assistant message without blocks, reducing
\* append progress[0] {stage: "llm", answer: "42"} and then append
\* progress[0].answer "42" leaves exactly one Markdown block, with content "42".
C8_OneBlock42 ==
  (Len(patchLog) = 2 /\ patchLog[1].patch = C8_First /\ patchLog[2].patch = C8_Second)
    => ContentOf(messages, AssistantMessageId) = <<Block(BlockTypeMARKDOWN, Str("42"))>>

C8_Witness ==
  /\ Len(patchLog) = 2
  /\ patchLog[1].patch = C8_First /\ patchLog[1].prev = EmptyObj /\ patchLog[1].before = <<>>
  /\ patchLog[2].patch = C8_Second
  /\ Len(patchLog[1].calls) > 0
  /\ Len(ContentOf(messages, AssistantMessageId)) = 1

\* C10: reducing a patch with action "end" returns the previous tree unchanged
\* and makes no append*Block call, whatever the tree, the key path and the content.
C10_EndUnchanged ==
  \A e \in LogEntries :
    ActionOf(e) = Str("end") => (e.next = e.prev /\ e.calls = <<>> /\ e.after = e.before)

\* an end patch reduced against a tree that is not empty and a message with blocks
C10_Witness ==
  \E e \in LogEntries :
    /\ ActionOf(e) = Str("end")
    /\ e.prev # EmptyObj
    /\ e.before # <<>>
    /\ e.next = e.prev

(***************************************************************************)
(* Specification SpecApply: applyUpsert and applyAppend called directly    *)
(***************************************************************************)
MaxApplies == 2

ApplyTrees ==
  {EmptyObj,
   Obj(<<E("message", Obj(<<E("content", EmptyObj)>>))>>),
   Obj(<<E("message", MessageWithProgress)>>),
   Obj(<<E("message", Str("42"))>>),
   Obj(<<E("message", Obj(<<E("content", Obj(<<E("middle_answer",
      Obj(<<E("progress", Obj(<<E("note", Str("n"))>>))>>))>>))>>))>>)}
ApplyKeys == {ProgressAt(0), ProgressAt(1), ProgressAnswerAt(0), FinalTextKey, Key(<<>>)}
ApplyContents == {Str("42"), LlmEntry("42"), MessageWithProgress}

\* one entry of patchLog for a direct call
Application(fn, obj, key, content, result) ==
  [fn |-> fn, obj |-> obj, key |-> key, content |-> content, result |-> result]

ApplyInit ==
  /\ UIInit
  /\ StreamIdle
  /\ RetryIdle
  /\ RaceIdle
  /\ ConvIdle
  /\ LookupIdle
  /\ SessionIdle
  /\ InitIdle
  /\ assistantMessage \in ApplyTrees
  /\ patchLog = <<>>

Applies(fn, key, content, result) ==
  /\ Len(patchLog) < MaxApplies
  /\ assistantMessage' = IF IsThrown(result) THEN assistantMessage ELSE result
  /\ patchLog' = Append(patchLog, Application(fn, assistantMessage, key, content, result))
  /\ UNCHANGED <<uiVars, streamVars, retryVars, raceVars, convVars, lookupVars, sessionVars, initVars>>

\* assistantMessage = this.applyUpsert(assistantMessage, key, content)
ApplyUpsert(key, content) ==
  Applies("applyUpsert", key, content, applyUpsert(assistantMessage, KeySeq(key), content))

\* assistantMessage = this.applyAppend(assistantMessage, key, content)
ApplyAppend(key, content) ==
  Applies("applyAppend", key, content, applyAppend(assistantMessage, KeySeq(key), content))

ApplyNext ==
  \E key \in ApplyKeys, content \in ApplyContents :
    \/ ApplyUpsert(key, content)
    \/ ApplyAppend(key, content)
SpecApply == ApplyInit /\ [][ApplyNext]_vars

\* C2: for a tree in which message.content.middle_answer.progress does not
\* exist yet, applyAppend(tree, [..., "middle_answer", "progress", N], X)
\* returns a tree in which progress is an array and progress[N] equals X.
C2_CreatesProgressArray ==
  \A i \in 1..Len(patchLog), n \in {0, 1} :
    LET e == patchLog[i]
        progress == getNestedProperty(e.result, KeySeq(ProgressKey))
    IN (/\ e.fn = "applyAppend"
        /\ e.key = ProgressAt(n)
        /\ IsNullish(getNestedProperty(e.obj, KeySeq(ProgressKey))))
         => (IsArr(progress) /\ GetProp(progress, Num(n)) = e.content)

(***************************************************************************)
(* Specification SpecSink: the append*Block callbacks called directly      *)
(***************************************************************************)
MaxAppends == 3

MissingMessageId == "assistant-9"
SinkIds == {AssistantMessageId, MissingMessageId}
SinkTexts == {"", "He", "Hello", "Hex"}
SampleQuery ==
  Obj(<<E("input", Str("tla")),
        E("results", Arr(<<Obj(<<E("content", Str("")), E("icon", Str("")), E("link", Str("l")),
                                  E("media", Str("")), E("title", Str("t"))>>)>>))>>)
SampleCodeResult == Obj(<<E("input", Str("print(1)")), E("output", Str("1"))>>)
SampleSqlResult ==
  Obj(<<E("title", Str("rows")), E("sql", Str("select 1")), E("data", Arr(<<Num(1)>>))>>)
SampleChart ==
  Obj(<<E("chartType", Str("Line")), E("dimensions", EmptyArr), E("measures", EmptyArr),
        E("rows", EmptyArr)>>)

SinkInit ==
  /\ UIInit
  /\ StreamIdle
  /\ RetryIdle
  /\ RaceIdle
  /\ ConvIdle
  /\ LookupIdle
  /\ SessionIdle
  /\ InitIdle
  /\ assistantMessage = EmptyObj
  /\ patchLog = <<>>

Sink(u) ==
  /\ Len(calls) < MaxAppends
  /\ SetUI(u)
  /\ UNCHANGED <<assistantMessage, patchLog, streamVars, retryVars, raceVars, convVars, lookupVars, sessionVars, initVars>>

AppendMarkdown(id, text) == Sink(appendMarkdownBlock(UI, id, Str(text)))
AppendWebSearch(id) == Sink(appendWebSearchBlock(UI, id, SampleQuery))
AppendExecuteCode(id) == Sink(appendExecuteCodeBlock(UI, id, SampleCodeResult))
AppendText2Sql(id) == Sink(appendText2SqlBlock(UI, id, SampleSqlResult))
AppendJson2Plot(id) == Sink(appendJson2PlotBlock(UI, id, SampleChart))

SinkNext ==
  \/ \E id \in SinkIds, text \in SinkTexts : AppendMarkdown(id, text)
  \/ \E id \in SinkIds : AppendWebSearch(id)
  \/ \E id \in SinkIds : AppendExecuteCode(id)
  \/ \E id \in SinkIds : AppendText2Sql(id)
  \/ \E id \in SinkIds : AppendJson2Plot(id)
SpecSink == SinkInit /\ [][SinkNext]_vars

\* the last block is a Markdown block whose content is empty or a prefix of text
C6_LastIsPrefix(before, text) ==
  /\ Len(before) > 0
  /\ before[Len(before)].type = BlockTypeMARKDOWN
  /\ IsStr(before[Len(before)].content)
  /\ LET held == before[Len(before)].content.s
     IN Len(held) <= Len(text) /\ SubSeq(text, 1, Len(held)) = held
C6_Step ==
  \A text \in SinkTexts :
    calls' = Append(calls, Call("appendMarkdownBlock", AssistantMessageId, Str(text))) =>
      LET before == ContentOf(messages, AssistantMessageId)
          after == ContentOf(messages', AssistantMessageId)
          block == Block(BlockTypeMARKDOWN, Str(text))
      IN IF C6_LastIsPrefix(before, text)
         THEN Len(after) = Len(before) /\ after = [before EXCEPT ![Len(before)] = block]
         ELSE after = Append(before, block)
C6_HeHello ==
  calls = <<Call("appendMarkdownBlock", AssistantMessageId, Str("He")),
            Call("appendMarkdownBlock", AssistantMessageId, Str("Hello"))>>
    => ContentOf(messages, AssistantMessageId) = <<Block(BlockTypeMARKDOWN, Str("Hello"))>>
\* C6: appendMarkdownBlock(id, text) replaces the last block of message id in
\* place (same block count, content = text) exactly when that block is a
\* Markdown block whose content is empty or a prefix of text, and otherwise
\* appends one Markdown block with content text; "He" followed by "Hello"
\* leaves exactly one Markdown block, containing "Hello".
C6_ReplaceOrAppend == [][C6_Step /\ C6_HeHello']_vars

\* "He", "Hello" merged into one block and "Hex" appended as a second one
C6_Witness ==
  /\ calls = <<Call("appendMarkdownBlock", AssistantMessageId, Str("He")),
               Call("appendMarkdownBlock", AssistantMessageId, Str("Hello")),
               Call("appendMarkdownBlock", AssistantMessageId, Str("Hex"))>>
  /\ ContentOf(messages, AssistantMessageId) =
       <<Block(BlockTypeMARKDOWN, Str("Hello")), Block(BlockTypeMARKDOWN, Str("Hex"))>>

(***************************************************************************)
(* Retry wrapper: executeWithTokenRefresh (ChatKitBase),                   *)
(* executeDataAgentWithTokenRefresh (DIPBase)                              *)
(***************************************************************************)
shouldRefreshTokenAlways(status, error) == TRUE
shouldRefreshTokenNever(status, error) == FALSE
\* return status === 401
shouldRefreshToken(status, error) == status = Num(401)

\* error.status || error.response?.status || 0
StatusOf(error) == Or(Or(Dot(error, "status"), Chain(error, <<"response", "status">>)), Num(0))
\* error.body || error.response?.data || error
BodyOf(error) == Or(Or(Dot(error, "body"), Chain(error, <<"response", "data">>)), error)

storeTokenKept(old, newToken) == old
\* this.token = newToken
storeToken(old, newToken) == newToken

catchRefreshErrorRethrow(error, refreshError) == refreshError
\* catch (refreshError) { throw error }: what the outer catch block throws
catchRefreshError(error, refreshError) == error

(***************************************************************************)
(* Specification SpecRetry: invocations of the retry wrapper, one at a     *)
(* time, against an API and a refreshToken whose outcomes are free         *)
(***************************************************************************)
MaxInvocations == 3

\* the errors the n-th apiCall() of an invocation can reject with
ApiErrors(n) ==
  {Obj(<<E("attempt", Num(n)), E("status", Num(401))>>),
   Obj(<<E("attempt", Num(n)), E("response", Obj(<<E("status", Num(401))>>))>>),
   Obj(<<E("attempt", Num(n)), E("status", Num(500))>>),
   Obj(<<E("attempt", Num(n)), E("message", Str("network"))>>)}
RefreshError == Obj(<<E("message", Str("refresh failed"))>>)
NewTokens == {"token-1", "token-2"}
Ok == Str("ok")

RetryInit ==
  /\ UIInit
  /\ StreamIdle
  /\ assistantMessage = EmptyObj
  /\ patchLog = <<>>
  /\ rtPc = "idle"
  /\ token = "token-0"
  /\ hasRefresh \in BOOLEAN
  /\ apiCalls = 0
  /\ refreshCalls = 0
  /\ attempts = <<>>
  /\ refreshOutcome = "none"
  /\ rtResult = Undef
  /\ invocations = 0
  /\ sentTokens = <<>>
  /\ refreshedWith = ""
  /\ RaceIdle
  /\ ConvIdle
  /\ LookupIdle
  /\ SessionIdle
  /\ InitIdle

RetryUnchanged == UNCHANGED <<uiVars, assistantMessage, patchLog, streamVars, raceVars, convVars, lookupVars, sessionVars, initVars>>

\* executeWithTokenRefresh(apiCall) is entered: "return await apiCall()"
Invoke ==
  /\ rtPc = "idle"
  /\ invocations < MaxInvocations
  /\ rtPc' = "call1"
  /\ apiCalls' = 1
  /\ refreshCalls' = 0
  /\ attempts' = <<>>
  /\ refreshOutcome' = "none"
  /\ rtResult' = Undef
  /\ sentTokens' = <<token>>
  /\ refreshedWith' = ""
  /\ UNCHANGED <<token, hasRefresh, invocations>>
  /\ RetryUnchanged

\* the wrapper settles: it resolves with Ok or rejects with the error thrown
Settle(pc, result) ==
  /\ rtPc' = pc
  /\ rtResult' = result
  /\ invocations' = invocations + 1

FirstCallResolves ==
  /\ rtPc = "call1"
  /\ attempts' = Append(attempts, Ok)
  /\ Settle("resolved", Ok)
  /\ UNCHANGED <<token, hasRefresh, apiCalls, refreshCalls, refreshOutcome, sentTokens,
                 refreshedWith>>
  /\ RetryUnchanged

\* catch (error): refresh when needed and configured, else "throw error"
FirstCallRejects(error) ==
  /\ rtPc = "call1"
  /\ attempts' = Append(attempts, error)
  /\ IF shouldRefreshToken(StatusOf(error), BodyOf(error)) /\ hasRefresh
     THEN /\ rtPc' = "refresh"
          /\ refreshCalls' = refreshCalls + 1
          /\ UNCHANGED <<rtResult, invocations>>
     ELSE /\ Settle("rejected", error)
          /\ UNCHANGED refreshCalls
  /\ UNCHANGED <<token, hasRefresh, apiCalls, refreshOutcome, sentTokens, refreshedWith>>
  /\ RetryUnchanged

\* "const newToken = await this.refreshToken(); this.token = newToken;
\* return await apiCall()"
RefreshResolves(newToken) ==
  /\ rtPc = "refresh"
  /\ refreshedWith' = newToken
  /\ token' = storeToken(token, newToken)
  /\ sentTokens' = Append(sentTokens, token')
  /\ refreshOutcome' = "resolved"
  /\ rtPc' = "call2"
  /\ apiCalls' = apiCalls + 1
  /\ UNCHANGED <<hasRefresh, refreshCalls, attempts, rtResult, invocations>>
  /\ RetryUnchanged

\* this.refreshToken() rejects: the outer catch block runs
RefreshRejects ==
  /\ rtPc = "refresh"
  /\ refreshOutcome' = "rejected"
  /\ Settle("rejected", catchRefreshError(attempts[1], RefreshError))
  /\ UNCHANGED <<token, hasRefresh, apiCalls, refreshCalls, attempts, sentTokens, refreshedWith>>
  /\ RetryUnchanged

RetryResolves ==
  /\ rtPc = "call2"
  /\ attempts' = Append(attempts, Ok)
  /\ Settle("resolved", Ok)
  /\ UNCHANGED <<token, hasRefresh, apiCalls, refreshCalls, refreshOutcome, sentTokens,
                 refreshedWith>>
  /\ RetryUnchanged

\* catch (retryError) { throw retryError }, thrown inside the try block whose
\* catch (refreshError) block then runs
RetryRejects(retryError) ==
  /\ rtPc = "call2"
  /\ attempts' = Append(attempts, retryError)
  /\ Settle("rejected", catchRefreshError(attempts[1], retryError))
  /\ UNCHANGED <<token, hasRefresh, apiCalls, refreshCalls, refreshOutcome, sentTokens,
                 refreshedWith>>
  /\ RetryUnchanged

\* the caller has the outcome; the wrapper can be invoked again
Return ==
  /\ rtPc \in {"resolved", "rejected"}
  /\ invocations < MaxInvocations
  /\ rtPc' = "idle"
  /\ UNCHANGED <<token, hasRefresh, apiCalls, refreshCalls, attempts, refreshOutcome, rtResult,
                 invocations, sentTokens, refreshedWith>>
  /\ RetryUnchanged

RetryNext ==
  \/ Invoke
  \/ FirstCallResolves
  \/ \E error \in ApiErrors(1) : FirstCallRejects(error)
  \/ \E newToken \in NewTokens : RefreshResolves(newToken)
  \/ RefreshRejects
  \/ RetryResolves
  \/ \E retryError \in ApiErrors(2) : RetryRejects(retryError)
  \/ Return
SpecRetry == RetryInit /\ [][RetryNext]_vars

Settled == rtPc \in {"resolved", "rejected"}
\* every apiCall() of the invocation failed with status 401
AlwaysUnauthorized ==
  \A i \in 1..Len(attempts) : attempts[i] # Ok /\ StatusOf(attempts[i]) = Num(401)
Within == apiCalls <= 2 /\ refreshCalls <= 1

\* C4 as stated: when every apiCall() fails with status 401 and refreshToken
\* is configured, an invocation calls refreshToken exactly once and the API
\* exactly twice and then rejects; never more than two API calls or more than
\* one refresh.
C4_AsStated ==
  /\ Within
  /\ (Settled /\ hasRefresh /\ AlwaysUnauthorized)
       => (rtPc = "rejected" /\ refreshCalls = 1 /\ apiCalls = 2)

\* C4 with the refresh outcome told apart: when every apiCall() fails with
\* status 401 and refreshToken is configured, an invocation calls refreshToken
\* exactly once and rejects, having called the API exactly twice if
\* refreshToken resolved and exactly once if it rejected; never more than two
\* API calls or more than one refresh.
C4_OneRefreshOneRetry ==
  /\ Within
  /\ (Settled /\ hasRefresh /\ AlwaysUnauthorized)
       => /\ rtPc = "rejected"
          /\ refreshCalls = 1
          /\ refreshOutcome = "resolved" => apiCalls = 2
          /\ refreshOutcome = "rejected" => apiCalls = 1

\* both calls failed with 401 around a refresh that resolved
C4_Witness ==
  /\ rtPc = "rejected" /\ hasRefresh /\ AlwaysUnauthorized
  /\ refreshOutcome = "resolved" /\ Len(attempts) = 2
  /\ apiCalls = 2 /\ refreshCalls = 1

\* C5: if refreshToken rejects, the wrapper rejects with the error of the
\* original call and never issues the retry; if the retry rejects, the wrapper
\* rejects without a second refresh and without a third call.
C5_NoFurtherAttempt ==
  /\ refreshOutcome = "rejected"
       => (rtPc \in {"rejected", "idle"} /\ rtResult = attempts[1] /\ apiCalls = 1
           /\ Len(attempts) = 1)
  /\ (Len(attempts) = 2 /\ attempts[2] # Ok)
       => (rtPc \in {"rejected", "idle"} /\ refreshCalls = 1 /\ apiCalls = 2)

\* a later invocation whose refresh rejected
C5_Witness ==
  /\ invocations = 2 /\ rtPc = "rejected" /\ apiCalls = 1 /\ refreshCalls = 1
  /\ refreshOutcome = "rejected" /\ rtResult = attempts[1]

(***************************************************************************)
(* Specification SpecStream: handleStreamResponse reading one response     *)
(* body that the transport cuts into chunks of any of the allowed sizes    *)
(***************************************************************************)
MaxChunk == 3

\* the delta and completed frames of one answer of the bot platform
CozeHiStream ==
  "event:conversation.message.delta\ndata:{\"content\":\"Hi\",\"type\":\"answer\"}\n\n"
  \o "event:conversation.message.completed\ndata:{\"content\":\"Hi there\",\"type\":\"answer\"}\n\n"
\* a conversation id, a two-byte character, CR LF line ends, an unfinished last line
CozeIdStream ==
  "event: conversation.message.delta\r\ndata: {\"conversation_id\":\"c1\",\"content\":\"~%\",\"type\":\"answer\"}\r\n"
  \o "event:done\ndata:[DONE]\n: note\ndata:{\"type\":\"verbose\"}\nevent:conversation.message.delta"
FinalTextLine(text) ==
  "data:{\"key\":[\"message\",\"content\",\"final_answer\",\"answer\",\"text\"],\"action\":\"append\",\"content\":\""
  \o text \o "\"}\n"
EndLine == "data: {\"seq_id\":3,\"key\":[],\"action\":\"end\"}\n"
\* two text patches, the second with a two-byte character
DipTextStream == FinalTextLine("He") \o "\n" \o FinalTextLine("~%")
\* an end frame followed by a text patch
DipEndStream == EndLine \o FinalTextLine("He")
\* a line that is not JSON, a null, a patch that is skipped, an end frame
DipOddStream ==
  "data:{\"key\":[\n" \o "data:null\n"
  \o "data:{\"key\":[\"message\",\"ext\"],\"action\":\"upsert\",\"content\":1}\n" \o EndLine
\* the line without its line end
Unterminated(line) == SubSeq(line, 1, Len(line) - 1)
\* a text patch followed by a complete text patch whose line is not terminated
DipTailStream == FinalTextLine("He") \o Unterminated(FinalTextLine("y"))
\* streams with one bad data: line between the lines before and after it
BadLine(platform, before, bad, after) ==
  [adapter |-> platform, before |-> before, bad |-> bad, after |-> after]
\* a body that is not JSON
DipBadJson == BadLine("dip", FinalTextLine("He"), "data:{\"key\":[\n", FinalTextLine("y"))
\* a key that is no array: keyToJSONPath raises inside the reducer
DipBadKey ==
  BadLine("dip", FinalTextLine("He"),
          "data:{\"key\":5,\"action\":\"upsert\",\"content\":1}\n", FinalTextLine("y"))
\* a null payload under an event: line: the bot-platform reducer raises on it
CozeBadNull ==
  BadLine("coze", "event:conversation.message.delta\n", "data:null\n",
          "data:{\"content\":\"Hi\",\"type\":\"answer\"}\n")
\* an event: line, three payloads of which the first has no event: field, the
\* second both fields and the third only a type, and the end marker
EventStream ==
  "event: A\ndata:{\"type\":\"t1\"}\ndata:{\"event\":\"e2\",\"type\":\"t2\"}\n"
  \o "data:{\"type\":\"t3\"}\ndata:[DONE]\n"
\* an event: line, a payload that is not JSON, a payload with a type
EventBadJsonStream == "event:A\ndata:{\ndata:{\"type\":\"t1\"}\n"
BadLines == {DipBadJson, DipBadKey, CozeBadNull}
WithBad(b) == b.before \o b.bad \o b.after
WithoutBad(b) == b.before \o b.after
Streams ==
  {[adapter |-> "coze", bytes |-> CozeHiStream], [adapter |-> "coze", bytes |-> CozeIdStream],
   [adapter |-> "dip", bytes |-> DipTextStream], [adapter |-> "dip", bytes |-> DipEndStream],
   [adapter |-> "dip", bytes |-> DipOddStream], [adapter |-> "dip", bytes |-> DipTailStream],
   [adapter |-> "dip", bytes |-> EventStream],
   [adapter |-> "dip", bytes |-> EventBadJsonStream]}
  \cup {[adapter |-> b.adapter, bytes |-> WithBad(b)] : b \in BadLines}

StreamInit ==
  /\ UIInit
  /\ RetryIdle
  /\ RaceIdle
  /\ ConvIdle
  /\ LookupIdle
  /\ SessionIdle
  /\ InitIdle
  /\ assistantMessage = EmptyObj
  /\ patchLog = <<>>
  /\ \E stream \in Streams : adapter = stream.adapter /\ input = stream.bytes
  /\ pos = 0
  /\ carry = ""
  /\ buffer = ""
  /\ currentEvent = ""
  /\ frames = <<>>
  /\ hsrPc = "idle"
  /\ releases = 0
  /\ splitLine = FALSE

StreamUnchanged == UNCHANGED <<patchLog, retryVars, raceVars, convVars, lookupVars, sessionVars, initVars>>

\* loop state and decoder state of handleStreamResponse
LoopState == [currentEvent |-> currentEvent, assistantMessage |-> assistantMessage, u |-> UI,
              frames |-> frames]
DecoderState == [carry |-> carry, buffer |-> buffer, h |-> LoopState]
\* the decoder state handleStreamResponse starts with, for the UI state u
InitialDecoderState(u) ==
  [carry |-> "", buffer |-> "",
   h |-> [currentEvent |-> "", assistantMessage |-> EmptyObj, u |-> u, frames |-> <<>>]]

\* "const decoder = new TextDecoder(); let assistantMessage = {}"
StartReading ==
  /\ hsrPc = "idle"
  /\ hsrPc' = "reading"
  /\ assistantMessage' = EmptyObj
  /\ UNCHANGED <<uiVars, adapter, input, pos, carry, buffer, currentEvent, frames, releases,
                 splitLine>>
  /\ StreamUnchanged

\* the sizes the next chunk can have when remaining bytes are left
ChunkSizes(remaining) ==
  {n \in (1..MaxChunk) \cup {remaining, (remaining + 1) \div 2} : n >= 1 /\ n <= remaining}

Store(d) ==
  /\ carry' = d.carry
  /\ buffer' = d.buffer
  /\ currentEvent' = d.h.currentEvent
  /\ assistantMessage' = d.h.assistantMessage
  /\ frames' = d.h.frames
  /\ SetUI(d.h.u)
  /\ splitLine' = (splitLine \/ d.buffer # "")

\* reader.read() resolves with {done: false, value}: one pass of the while loop
ReadChunk(n) ==
  /\ hsrPc = "reading"
  /\ n \in ChunkSizes(Len(input) - pos)
  /\ pos' = pos + n
  /\ Store(ProcessChunk(adapter, AssistantMessageId, DecoderState, SubSeq(input, pos + 1, pos + n)))
  /\ UNCHANGED <<adapter, input, hsrPc, releases>>
  /\ StreamUnchanged

\* a handler that treats the carry-over buffer as a last line at end of stream
ReadDoneFlushing ==
  /\ hsrPc = "reading"
  /\ pos = Len(input)
  /\ hsrPc' = "returned"
  /\ releases' = releases + 1
  /\ Store(ProcessChunk(adapter, AssistantMessageId, DecoderState, "\n"))
  /\ UNCHANGED <<adapter, input, pos>>
  /\ StreamUnchanged

\* reader.read() resolves with {done: true}: break, releaseLock, return assistantMessage
ReadDone ==
  /\ hsrPc = "reading"
  /\ pos = Len(input)
  /\ hsrPc' = "returned"
  /\ releases' = releases + 1
  /\ UNCHANGED <<uiVars, assistantMessage, adapter, input, pos, carry, buffer, currentEvent,
                 frames, splitLine>>
  /\ StreamUnchanged

\* a handler without the finally block: the error leaves with the lock held
ReadFailsHolding ==
  /\ hsrPc = "reading"
  /\ hsrPc' = "rejected"
  /\ UNCHANGED <<uiVars, assistantMessage, adapter, input, pos, carry, buffer, currentEvent,
                 frames, splitLine, releases>>
  /\ StreamUnchanged
\* reader.read() rejects: releaseLock in the finally block, the error propagates
ReadFails ==
  /\ hsrPc = "reading"
  /\ hsrPc' = "rejected"
  /\ releases' = releases + 1
  /\ UNCHANGED <<uiVars, assistantMessage, adapter, input, pos, carry, buffer, currentEvent,
                 frames, splitLine>>
  /\ StreamUnchanged

StreamNext ==
  \/ StartReading
  \/ \E n \in 1..Len(input) : ReadChunk(n)
  \/ ReadDone
  \/ ReadFails
SpecStream == StreamInit /\ [][StreamNext]_vars

\* what handleStreamResponse delivers and returns when the transport hands
\* over the whole byte stream as one chunk
Uncut == ProcessChunk(adapter, AssistantMessageId, InitialDecoderState(
           [messages |-> StreamingMessages, conversationID |-> "", calls |-> <<>>, errors |-> 0]),
           input).h

\* C1: however the byte stream is cut into chunks, handleStreamResponse hands
\* the same ordered sequence of (event type, data string) frames to the
\* reducer and returns the same final tree: the frames and the tree of a run
\* that has returned are those of the run that received the stream uncut.
C1_CutIndependent ==
  hsrPc = "returned" => (frames = Uncut.frames /\ assistantMessage = Uncut.assistantMessage
                         /\ messages = Uncut.u.messages)

\* a run that returned after frames were delivered and a chunk ended inside a line
C1_Witness ==
  /\ hsrPc = "returned"
  /\ splitLine
  /\ Len(frames) >= 2
  /\ input = DipTextStream

\* C7: the bot-platform adapter run through handleStreamResponse on the delta
\* frame {"content":"Hi","type":"answer"} and the completed frame
\* {"content":"Hi there","type":"answer"} returns the buffer "Hi there" and
\* leaves the message with a single Markdown block with content "Hi there".
C7_HiThere ==
  (hsrPc = "returned" /\ adapter = "coze" /\ input = CozeHiStream)
    => /\ assistantMessage = Str("Hi there")
       /\ ContentOf(messages, AssistantMessageId) = <<Block(BlockTypeMARKDOWN, Str("Hi there"))>>

\* the frame carries a patch with action "end"
IsEndFrame(frame) == Dot(JSONParse(frame.data), "action") = Str("end")
\* C9: once a frame with action "end" has been reduced, no frame that arrives
\* later on the same stream changes the tree or causes an append*Block call.
C9_NothingAfterEnd ==
  adapter = "dip" =>
    \A i \in 1..Len(frames), j \in 1..Len(frames) :
      (i < j /\ IsEndFrame(frames[i])) => (~frames[j].changed /\ frames[j].ncalls = 0)

\* the bytes up to and including the last line end
LastLineEnd(bytes) ==
  IF \A j \in 1..Len(bytes) : CharAt(bytes, j) # "\n" THEN 0
  ELSE CHOOSE j \in 1..Len(bytes) :
         CharAt(bytes, j) = "\n" /\ \A k \in (j + 1)..Len(bytes) : CharAt(bytes, k) # "\n"
Terminated(bytes) == SubSeq(bytes, 1, LastLineEnd(bytes))
\* the loop state handleStreamResponse ends with when it receives bytes as one chunk
Handled(bytes) ==
  ProcessChunk(adapter, AssistantMessageId, InitialDecoderState(
    [messages |-> StreamingMessages, conversationID |-> "", calls |-> <<>>, errors |-> 0]),
    bytes).h
\* the carry-over buffer holds a data: line with a JSON body
HoldsDataLine(text) ==
  /\ startsWith(trim(text), "data:")
  /\ ~IsThrown(JSONParse(trim(SubSeq(trim(text), 6, Len(trim(text))))))

ReturnedWithBad(b) == hsrPc = "returned" /\ adapter = b.adapter /\ input = WithBad(b)
\* the payload of a data: line
DataOfLine(line) == trim(SubSeq(trim(line), 6, Len(trim(line))))
\* the tree and the blocks are those of the stream handled as one chunk
SameOutcome(bytes) ==
  /\ assistantMessage = Handled(bytes).assistantMessage
  /\ messages = Handled(bytes).u.messages

\* C12 as stated: for every adapter, the run over the stream with the bad line
\* ends with the tree and blocks of the stream with the bad line removed.
C12_AsStated == \A b \in BadLines : ReturnedWithBad(b) => SameOutcome(WithoutBad(b))

\* C12: a data: line whose body is not valid JSON, or whose reduction raises,
\* is dropped alone: if it is delivered at all it leaves the tree and the
\* blocks unchanged, the frame of the later line is still delivered, and with
\* the agent-platform reducer the final tree and blocks are those of the
\* stream with the bad line removed.
C12_DroppedAlone ==
  \A b \in BadLines :
    ReturnedWithBad(b) =>
      /\ \A i \in 1..Len(frames) :
           frames[i].data = DataOfLine(b.bad) => (~frames[i].changed /\ frames[i].ncalls = 0)
      /\ Len(frames) > 0
      /\ frames[Len(frames)].data = DataOfLine(b.after)
      /\ (b.adapter = "dip" => SameOutcome(WithoutBad(b)))

\* a returned run whose bad line raised inside the reducer, after and before
\* frames that changed the tree
C12_Witness ==
  /\ ReturnedWithBad(DipBadKey)
  /\ Len(frames) = 3
  /\ frames[1].changed /\ ~frames[2].changed /\ frames[3].changed

\* The event types the frames of a stream carry by the rule of C13, line by
\* line: context is the event type set by the last event: line and not yet used.
RECURSIVE ExpectedEvents(_, _, _)
ExpectedOfPayload(lines, i, context, payload) ==
  IF IsThrown(payload) \/ (context = "" /\ IsNullish(payload))
  THEN ExpectedEvents(lines, i + 1, context)
  ELSE <<IF context # "" THEN Str(context)
         ELSE IF Truthy(Dot(payload, "event")) THEN Dot(payload, "event")
         ELSE IF Truthy(Dot(payload, "type")) THEN Dot(payload, "type")
         ELSE Str("")>> \o ExpectedEvents(lines, i + 1, "")
ExpectedOfData(lines, i, context, dataStr) ==
  IF dataStr = "[DONE]" THEN ExpectedEvents(lines, i + 1, context)
  ELSE ExpectedOfPayload(lines, i, context, JSONParse(dataStr))
ExpectedOfLine(lines, i, context, line) ==
  IF startsWith(line, "event:")
  THEN ExpectedEvents(lines, i + 1, trim(SubSeq(line, 7, Len(line))))
  ELSE IF startsWith(line, "data:") THEN ExpectedOfData(lines, i, context, DataOfLine(line))
  ELSE ExpectedEvents(lines, i + 1, context)
ExpectedEvents(lines, i, context) ==
  IF i > Len(lines) THEN <<>> ELSE ExpectedOfLine(lines, i, context, trim(lines[i]))
\* the complete lines of the stream
CompleteLines(bytes) == split(decode("", Unterminated(Terminated(bytes))).text)
EventsOf(fs) == [i \in 1..Len(fs) |-> fs[i].event]

\* C13: each frame delivered carries the current event-type context if one is
\* set, otherwise the payload's event field, otherwise its type field; the
\* context is empty after a frame is delivered, so a data: line never inherits
\* the event type of an earlier delivered data: line; a [DONE] payload
\* delivers no frame.
C13_EventTypes ==
  hsrPc = "returned" =>
    /\ EventsOf(frames) = ExpectedEvents(CompleteLines(input), 1, "")
    /\ \A i \in 1..Len(frames) : frames[i].data # "[DONE]"

\* the run over EventStream returned: context, then event field, then type field
C13_Witness ==
  /\ hsrPc = "returned"
  /\ input = EventStream
  /\ EventsOf(frames) = <<Str("A"), Str("e2"), Str("t3")>>
  /\ currentEvent = ""

\* the value the key path of the entry's patch holds in tree
LeafOf(e, tree) == getNestedProperty(tree, KeySeq(Dot(e.patch, "key")))
\* the returned tree holds the update of the patch: content at the key path
\* for upsert; for append the old text followed by content when both are
\* texts, content otherwise
HoldsUpdate(e, old, content) ==
  IF ActionOf(e) = Str("append") /\ IsStr(old) /\ IsStr(content)
  THEN LeafOf(e, e.next) = Str(old.s \o content.s)
  ELSE LeafOf(e, e.next) = content
\* the patch is whitelisted and its projector did not act
ProjectorIdle(e) ==
  /\ ActionOf(e) \in {Str("upsert"), Str("append")}
  /\ getWhitelistEntry(ToStr(ActionOf(e)), PathOf(e)) # "null"
  /\ e.calls = <<>>

\* C14: for a whitelisted patch whose projector cannot act (the field it
\* expects is absent or of the wrong type, or it raises), the tree returned by
\* reduceAssistantMessage still holds the update of the patch.
C14_TreeKeepsUpdate ==
  \A e \in LogEntries :
    ProjectorIdle(e) => HoldsUpdate(e, LeafOf(e, e.prev), Dot(e.patch, "content"))

\* the direct calls logged
Applications == {patchLog[i] : i \in 1..Len(patchLog)}
\* the key path of the call is not empty and ends with a field name
EndsWithField(e) == ArrLen(e.key) > 0 /\ IsStr(KeySeq(e.key)[ArrLen(e.key)])
\* applyAppend was called on a path that ends with a field name and returned
AppendedField(e) == e.fn = "applyAppend" /\ EndsWithField(e) /\ ~IsThrown(e.result)
\* the leaf after the call, given the leaf old before it
AppendLeaf(old, content, new) ==
  IF IsStr(old) /\ IsStr(content) THEN new = Str(old.s \o content.s) ELSE new = content

IsPrefix(p, q) == Len(p) <= Len(q) /\ SubSeq(q, 1, Len(p)) = p
\* the paths compared before and after a call: every prefix of every key path
ProbePaths ==
  UNION {{SubSeq(KeySeq(key), 1, n) : n \in 1..ArrLen(key)} : key \in ApplyKeys}
Unrelated(p, key) == ~IsPrefix(p, key) /\ ~IsPrefix(key, p)
\* applyUpsert was called with a key path that is not empty and returned
Upserted(e) == e.fn = "applyUpsert" /\ ArrLen(e.key) > 0 /\ ~IsThrown(e.result)

WalkedPath(e) ==
  /\ ~IsThrown(e.result)
  /\ ArrLen(e.key) > 0
  /\ (e.fn = "applyUpsert" \/ EndsWithField(e))
\* the node found at position i of the key path before and after the call
\* obeys the rule: a node that was missing is an array if the next key is a
\* number and an object if it is a text; a node that existed is still the
\* same kind of node and has lost no entry
NodeRule(old, new, nextKey) ==
  IF IsNullish(old)
  THEN (IF IsNum(nextKey) THEN IsArr(new) ELSE IsObj(new))
  ELSE new.k = old.k /\ Len(new.f) >= Len(old.f)
NodeAt(tree, key, i) == getNestedProperty(tree, SubSeq(KeySeq(key), 1, i))

\* C17: whenever a patch has to create a missing intermediate node at
\* position i of the key path, the node created is an array if key[i+1] is a
\* number and an object if key[i+1] is a text; an intermediate node that
\* already exists is never replaced.
C17_IntermediateNodes ==
  \A e \in Applications :
    WalkedPath(e) =>
      \A i \in 1..(ArrLen(e.key) - 1) :
        NodeRule(NodeAt(e.obj, e.key, i), NodeAt(e.result, e.key, i), KeySeq(e.key)[i + 1])

\* one call created an array and an object below the empty tree; a later call
\* found the nodes the first one had created and kept them
C17_Witness ==
  /\ \E e \in Applications :
       /\ WalkedPath(e) /\ e.obj = EmptyObj /\ e.key = ProgressAnswerAt(0)
       /\ IsArr(NodeAt(e.result, e.key, 4)) /\ IsObj(NodeAt(e.result, e.key, 5))
  /\ \E e \in Applications :
       /\ WalkedPath(e) /\ e.key = FinalTextKey
       /\ IsObj(NodeAt(e.obj, e.key, 2)) /\ NodeAt(e.obj, e.key, 2) # EmptyObj
       /\ IsNullish(NodeAt(e.obj, e.key, 3)) /\ IsObj(NodeAt(e.result, e.key, 3))

\* C18: a reduction step never modifies the tree it was given: once
\* reduceAssistantMessage(frame, prev, id) has returned, prev is structurally
\* equal to its value before the call, for every action and key path, also
\* when the returned tree differs from prev.
C18_PrevUntouched ==
  \A e \in LogEntries : PrevAfterReduce(e.patch, e.prev) = e.prev

\* a patch that wrote below a node prev already held, and returned another tree
C18_Witness ==
  \E e \in LogEntries :
    /\ e.next # e.prev
    /\ ArgAfterApply(ActionOf(e), e.prev, KeySeq(Dot(e.patch, "key")), Dot(e.patch, "content"))
         # e.prev
    /\ PrevAfterReduce(e.patch, e.prev) = e.prev

(***************************************************************************)
(* Specification SpecRace: wrapper invocations in flight at the same time  *)
(* on one component, sharing this.token and this.refreshToken; every await *)
(* of the wrapper is a point where another invocation can run              *)
(***************************************************************************)
MaxRequests == 2
RequestIds == 1..MaxRequests
\* the tokens the host's refreshToken can resolve with
RaceTokens == {"token-1", "token-2"}

\* one wrapper invocation: where it is suspended, the token each of its
\* apiCall() invocations put in the Authorization header, the token its
\* refresh wrote to this.token ("" if none) and the error of its first call
Request(pc, sent, wrote, error) == [pc |-> pc, sent |-> sent, wrote |-> wrote, error |-> error]
Refreshing == {r \in DOMAIN inflight : inflight[r].pc = "refresh"}
Retrying == {r \in DOMAIN inflight : inflight[r].pc = "call2"}

RaceInit ==
  /\ UIInit
  /\ StreamIdle
  /\ ConvIdle
  /\ LookupIdle
  /\ SessionIdle
  /\ InitIdle
  /\ assistantMessage = EmptyObj
  /\ patchLog = <<>>
  /\ rtPc = "idle"
  /\ token = "token-0"
  /\ hasRefresh \in BOOLEAN
  /\ apiCalls = 0
  /\ refreshCalls = 0
  /\ attempts = <<>>
  /\ refreshOutcome = "none"
  /\ rtResult = Undef
  /\ invocations = 0
  /\ sentTokens = <<>>
  /\ refreshedWith = ""
  /\ inflight = [r \in RequestIds |-> Request("idle", <<>>, "", Undef)]

RaceUnchanged ==
  UNCHANGED <<uiVars, assistantMessage, patchLog, streamVars, convVars, lookupVars, sessionVars, initVars, rtPc, hasRefresh,
              apiCalls, refreshCalls, attempts, refreshOutcome, rtResult, invocations,
              sentTokens, refreshedWith>>

\* "return await apiCall()": the closure builds its headers from this.token
\* when it is invoked
RaceInvoke(r) ==
  /\ inflight[r].pc = "idle"
  /\ inflight' = [inflight EXCEPT ![r] = Request("call1", <<token>>, "", Undef)]
  /\ UNCHANGED token
  /\ RaceUnchanged

RaceFirstCallResolves(r) ==
  /\ inflight[r].pc = "call1"
  /\ inflight' = [inflight EXCEPT ![r].pc = "resolved"]
  /\ UNCHANGED token
  /\ RaceUnchanged

\* catch (error): "await this.refreshToken()" when needed and configured,
\* else "throw error"
RaceFirstCallRejects(r, error) ==
  /\ inflight[r].pc = "call1"
  /\ inflight' = [inflight EXCEPT ![r].error = error,
                                  ![r].pc = IF shouldRefreshToken(StatusOf(error), BodyOf(error))
                                               /\ hasRefresh
                                            THEN "refresh" ELSE "rejected"]
  /\ UNCHANGED token
  /\ RaceUnchanged

\* "const newToken = await this.refreshToken(); this.token = newToken;
\* return await apiCall()": the write and the retry's read of this.token are
\* in one synchronous stretch
RaceRefreshResolves(r, newToken) ==
  /\ inflight[r].pc = "refresh"
  /\ token' = storeToken(token, newToken)
  /\ inflight' = [inflight EXCEPT ![r].pc = "call2", ![r].wrote = token',
                                  ![r].sent = Append(@, token')]
  /\ RaceUnchanged

RaceRefreshRejects(r) ==
  /\ inflight[r].pc = "refresh"
  /\ inflight' = [inflight EXCEPT ![r].pc = "rejected"]
  /\ UNCHANGED token
  /\ RaceUnchanged

RaceRetryResolves(r) ==
  /\ inflight[r].pc = "call2"
  /\ inflight' = [inflight EXCEPT ![r].pc = "resolved"]
  /\ UNCHANGED token
  /\ RaceUnchanged

RaceRetryRejects(r) ==
  /\ inflight[r].pc = "call2"
  /\ inflight' = [inflight EXCEPT ![r].pc = "rejected"]
  /\ UNCHANGED token
  /\ RaceUnchanged

RaceNext ==
  \E r \in RequestIds :
    \/ RaceInvoke(r)
    \/ RaceFirstCallResolves(r)
    \/ \E error \in ApiErrors(1) : RaceFirstCallRejects(r, error)
    \/ \E newToken \in RaceTokens : RaceRefreshResolves(r, newToken)
    \/ RaceRefreshRejects(r)
    \/ RaceRetryResolves(r)
    \/ RaceRetryRejects(r)
SpecRace == RaceInit /\ [][RaceNext]_vars

\* C19: the refresh-and-retry of one request is never interleaved with the
\* refresh of a second request in flight: no refreshToken() invocation is
\* pending while another request is between the start of its refresh and the
\* end of its retry, and the retry of every request sends the token its own
\* refresh wrote.
C19_NotInterleaved ==
  /\ \A a \in Refreshing \cup Retrying : \A b \in Refreshing : a = b
  /\ \A r \in DOMAIN inflight :
       Len(inflight[r].sent) = 2 => inflight[r].sent[2] = inflight[r].wrote

(***************************************************************************)
(* Specification SpecConversation: one send and one createConversation on  *)
(* the same component; every await of either is a point where the other    *)
(* can run                                                                 *)
(***************************************************************************)
\* the conversation on screen before anything is called
OldMessages ==
  <<ChatMessage("user-0", <<Block(BlockTypeTEXT, Str("earlier"))>>),
    ChatMessage("assistant-0", <<Block(BlockTypeMARKDOWN, Str("Hi"))>>)>>
Conversations ==
  {[messages |-> <<>>, conversationID |-> ""],
   [messages |-> OldMessages, conversationID |-> "conv-0"]}
\* the conversationID argument of send: omitted, or the id the host holds
PassedIds == {"", "conv-0"}
GeneratedId == "conv-1"
\* one text frame of each platform
CozeDeltaStream ==
  "event:conversation.message.delta\ndata:{\"content\":\"Hi\",\"type\":\"answer\"}\n\n"
Responses ==
  {[adapter |-> "dip", bytes |-> FinalTextLine("He")],
   [adapter |-> "coze", bytes |-> CozeDeltaStream]}

MessageIds(msgs) == {msgs[i].messageId : i \in 1..Len(msgs)}
SendInFlight == sendPc \in {"generating", "fetching", "streaming"}

ConversationInit ==
  /\ \E c \in Conversations : messages = c.messages /\ conversationID = c.conversationID
  /\ calls = <<>>
  /\ errors = 0
  /\ RetryIdle
  /\ RaceIdle
  /\ ConvIdle
  /\ LookupIdle
  /\ SessionIdle
  /\ InitIdle
  /\ assistantMessage = EmptyObj
  /\ patchLog = <<>>
  /\ \E response \in Responses : adapter = response.adapter /\ input = response.bytes
  /\ pos = 0
  /\ carry = ""
  /\ buffer = ""
  /\ currentEvent = ""
  /\ frames = <<>>
  /\ hsrPc = "idle"
  /\ releases = 0
  /\ splitLine = FALSE

ConversationUnchanged == UNCHANGED <<patchLog, retryVars, raceVars, lookupVars, sessionVars, initVars>>
ReaderUnchanged ==
  UNCHANGED <<adapter, input, pos, carry, buffer, currentEvent, frames, hsrPc, releases,
              splitLine>>
CreateUnchanged == UNCHANGED <<createPc, previous>>

\* setState(prevState => ({messages: [...prevState.messages, userMessage]}))
WithUserMessage(msgs) ==
  Append(msgs, ChatMessage(UserMessageId, <<Block(BlockTypeTEXT, Str("hello"))>>))
\* setState(prevState => ({messages: [...prevState.messages, initialAssistantMessage]}))
WithAssistantMessage(msgs) == Append(msgs, ChatMessage(AssistantMessageId, <<>>))

\* what the create-session request can answer with when it succeeds
SessionResults ==
  {Obj(<<E("data", Obj(<<E("id", Str(GeneratedId))>>))>>),
   Obj(<<E("id", Str(GeneratedId))>>),
   Obj(<<E("conversation_id", Str(GeneratedId))>>),
   EmptyObj, Null}
\* the errors a request of send can fail with, after the retry wrapper where
\* there is one
RequestErrors ==
  {Obj(<<E("status", Num(401))>>), Obj(<<E("status", Num(500))>>),
   Obj(<<E("message", Str("Failed to fetch"))>>)}
ReadError == Obj(<<E("message", Str("read failed"))>>)
NoBodyError == Obj(<<E("message", Str("no response body"))>>)

generateConversationRethrow(error) == Thrown
\* generateConversation: catch (error) { return '' }
generateConversationCatch(error) == Str("")
\* generateConversation, request succeeded: "result.data?.id || result.id || ''"
\* (agent platform), "result.data?.id || result.conversation_id || ''" (bot
\* platform); a TypeError on a null result lands in the catch block
generateConversationResult(platform, result) ==
  IF IsNullish(result) THEN generateConversationCatch(Thrown)
  ELSE Or(Or(Chain(result, <<"data", "id">>),
             Dot(result, IF platform = "dip" THEN "id" ELSE "conversation_id")),
          Str(""))

sendCatchWrapped(error) == Obj(<<E("cause", error)>>)
\* send: catch (error) { setState(...); throw error }
sendCatch(error) == error

\* the rest of send once the conversation id is settled: isSending, the user
\* message, and sendMessage up to its awaited request
Sending(id) ==
  /\ sendPc' = "fetching"
  /\ isSending' = TRUE
  /\ messages' = WithUserMessage(messages)
  /\ sendMessageCalls' = Append(sendMessageCalls, id)

\* send(text, ctx, conversationID): "conversationID || this.state.conversationID";
\* without an id it awaits generateConversation(text)
Send(passed) ==
  /\ sendPc = "idle"
  /\ IF passed = "" /\ conversationID = ""
     THEN /\ sendPc' = "generating"
          /\ UNCHANGED <<messages, isSending, sendMessageCalls>>
     ELSE Sending(IF passed # "" THEN passed ELSE conversationID)
  /\ UNCHANGED <<conversationID, calls, errors, assistantMessage, generated, streamingMessageId,
                 thrown, sendResult>>
  /\ CreateUnchanged
  /\ ReaderUnchanged
  /\ ConversationUnchanged

\* generateConversation has settled with g: send stores the id it resolved
\* with ("this.setState({conversationID})"), or goes on without one when it
\* rejected
Generated(request, g) ==
  /\ generated' = [request |-> request, value |-> g]
  /\ conversationID' = IF IsThrown(g) THEN conversationID ELSE g.s
  /\ Sending(IF IsThrown(g) THEN "" ELSE g.s)
  /\ UNCHANGED <<calls, errors, assistantMessage, streamingMessageId, thrown, sendResult>>
  /\ CreateUnchanged
  /\ ReaderUnchanged
  /\ ConversationUnchanged

\* the create-session request succeeds with result
GenerateResolves(result) ==
  /\ sendPc = "generating"
  /\ Generated("succeeded", generateConversationResult(adapter, result))
\* the create-session request fails, after the refresh and retry if any
GenerateFails(error) ==
  /\ sendPc = "generating"
  /\ Generated("failed", generateConversationCatch(error))

\* the request of sendMessage resolves with a readable body: sendMessage adds
\* the empty assistant message and handleStreamResponse runs up to its first
\* reader.read()
FetchResolves ==
  /\ sendPc = "fetching"
  /\ sendPc' = "streaming"
  /\ messages' = WithAssistantMessage(messages)
  /\ streamingMessageId' = Str(AssistantMessageId)
  /\ hsrPc' = "reading"
  /\ assistantMessage' = EmptyObj
  /\ UNCHANGED <<conversationID, calls, errors, generated, sendMessageCalls, isSending, thrown,
                 sendResult>>
  /\ UNCHANGED <<adapter, input, pos, carry, buffer, currentEvent, frames, releases, splitLine>>
  /\ CreateUnchanged
  /\ ConversationUnchanged

\* send's catch block: isSending false, streamingMessageId null, rethrow
SendRejects(error) ==
  /\ sendPc' = "rejected"
  /\ thrown' = error
  /\ sendResult' = sendCatch(error)
  /\ isSending' = FALSE
  /\ streamingMessageId' = Null

\* the request of sendMessage rejects: sendMessage rejects before it adds
\* anything
FetchRejects(error) ==
  /\ sendPc = "fetching"
  /\ SendRejects(error)
  /\ UNCHANGED <<uiVars, assistantMessage, generated, sendMessageCalls>>
  /\ CreateUnchanged
  /\ ReaderUnchanged
  /\ ConversationUnchanged

\* the response has no body: the assistant message is added, then
\* "throw new Error(...)"
FetchResolvesWithoutBody ==
  /\ sendPc = "fetching"
  /\ messages' = WithAssistantMessage(messages)
  /\ SendRejects(NoBodyError)
  /\ UNCHANGED <<conversationID, calls, errors, assistantMessage, generated, sendMessageCalls>>
  /\ CreateUnchanged
  /\ ReaderUnchanged
  /\ ConversationUnchanged

\* handleStreamResponse has returned: sendMessage returns the message and send
\* clears isSending and streamingMessageId
SendResolves ==
  /\ sendPc = "streaming"
  /\ hsrPc = "returned"
  /\ sendPc' = "resolved"
  /\ sendResult' = Ok
  /\ isSending' = FALSE
  /\ streamingMessageId' = Null
  /\ UNCHANGED <<uiVars, assistantMessage, generated, sendMessageCalls, thrown>>
  /\ CreateUnchanged
  /\ ReaderUnchanged
  /\ ConversationUnchanged

\* handleStreamResponse has rejected with the error of reader.read()
SendFails ==
  /\ sendPc = "streaming"
  /\ hsrPc = "rejected"
  /\ SendRejects(ReadError)
  /\ UNCHANGED <<uiVars, assistantMessage, generated, sendMessageCalls>>
  /\ CreateUnchanged
  /\ ReaderUnchanged
  /\ ConversationUnchanged

SendUnchanged ==
  UNCHANGED <<sendPc, generated, sendMessageCalls, isSending, streamingMessageId, thrown,
              sendResult>>

\* createConversation: clearConversation() sets conversationID '' and
\* messages [], then getOnboardingInfo() is awaited; "previous" records the
\* messages the cleared conversation had or had on their way
CreateConversation ==
  /\ createPc = "idle"
  /\ createPc' = "onboarding"
  /\ previous' = MessageIds(messages)
                   \cup (IF SendInFlight THEN {UserMessageId, AssistantMessageId} ELSE {})
  /\ messages' = <<>>
  /\ conversationID' = ""
  /\ UNCHANGED <<calls, errors, assistantMessage>>
  /\ SendUnchanged
  /\ ReaderUnchanged
  /\ ConversationUnchanged

\* getOnboardingInfo resolves: "this.setState({onboardingInfo})"
OnboardingResolves ==
  /\ createPc = "onboarding"
  /\ createPc' = "resolved"
  /\ UNCHANGED <<uiVars, assistantMessage, previous>>
  /\ SendUnchanged
  /\ ReaderUnchanged
  /\ ConversationUnchanged

\* getOnboardingInfo rejects: "throw error"
OnboardingRejects ==
  /\ createPc = "onboarding"
  /\ createPc' = "rejected"
  /\ UNCHANGED <<uiVars, assistantMessage, previous>>
  /\ SendUnchanged
  /\ ReaderUnchanged
  /\ ConversationUnchanged

ConversationNext ==
  \/ \E passed \in PassedIds : Send(passed)
  \/ \E error \in RequestErrors : GenerateFails(error)
  \/ \E result \in SessionResults : GenerateResolves(result)
  \/ FetchResolves
  \/ \E error \in RequestErrors : FetchRejects(error)
  \/ FetchResolvesWithoutBody
  \/ \E n \in 1..Len(input) : ReadChunk(n)
  \/ ReadDone
  \/ ReadFails
  \/ SendResolves
  \/ SendFails
  \/ CreateConversation
  \/ OnboardingResolves
  \/ OnboardingRejects
SpecConversation == ConversationInit /\ [][ConversationNext]_vars

\* C20: once createConversation has resolved, the message list holds no
\* message of the conversation it left, neither one that was in the list when
\* it was called nor one of a send that was in flight at that moment.
C20_PreviousCleared ==
  createPc = "resolved" => MessageIds(messages) \cap previous = {}

(***************************************************************************)
(* Retry wrapper: when the refresh is consulted                            *)
(***************************************************************************)
\* the first apiCall() of the invocation failed with a status other than 401
FirstFailedOtherwise ==
  /\ Len(attempts) >= 1
  /\ attempts[1] # Ok
  /\ StatusOf(attempts[1]) # Num(401)

\* C21: refreshToken is invoked only when shouldRefreshToken returned true for
\* the failed call: an invocation whose first call failed with a status other
\* than 401 calls refreshToken zero times, never retries, and rejects with
\* the error of that call.
C21_RefreshOnlyOn401 ==
  /\ refreshCalls > 0 => shouldRefreshToken(StatusOf(attempts[1]), BodyOf(attempts[1]))
  /\ FirstFailedOtherwise
       => /\ refreshCalls = 0
          /\ apiCalls = 1
          /\ Len(attempts) = 1
          /\ rtPc \in {"rejected", "idle"}
          /\ rtResult = attempts[1]

\* a call that failed with status 500 while refreshToken is configured
C21_Witness ==
  /\ hasRefresh /\ rtPc = "rejected" /\ FirstFailedOtherwise
  /\ StatusOf(attempts[1]) = Num(500)
  /\ refreshCalls = 0 /\ apiCalls = 1 /\ rtResult = attempts[1]

(***************************************************************************)
(* Specification SpecLookup: getWhitelistEntry called directly with an     *)
(* action and a path, the path typed in or made by keyToJSONPath           *)
(***************************************************************************)
MaxLookups == 2
LookupActions == {"upsert", "append", "end", "remove", ""}
LookupKeys ==
  {Key(<<Str("error")>>), MessageKey, FinalTextKey, ThinkingKey, ProgressKey, ExtraKey,
   Key(<<Str("message"), Str("content"), Str("final_answer"), Str("answer_type_other")>>),
   ProgressAt(0), ProgressAt(12), ProgressAnswerAt(0), ProgressAnswerAt(7),
   Key(<<Str("message"), Str("content"), Str("middle_answer"), Str("progress"), Str("0")>>),
   Key(<<Str("message"), Str("content"), Str("middle_answer"), Str("progress"), Num(0), Num(1)>>),
   Key(<<Str("message"), Str("content"), Str("middle_answer"), Str("progress"), Num(0),
         Str("answer"), Str("text")>>),
   Key(<<Str("message.content.middle_answer"), Str("progress"), Num(3)>>),
   Key(<<Num(0)>>), Key(<<>>)}
TypedPaths ==
  {"message.content.middle_answer.progress[]",
   "message.content.middle_answer.progress[1a]",
   "message.content.middle_answer.progress[-1]",
   "message.content.middle_answer.progress[007]",
   "message.content.middle_answer.progress[0]answer",
   "message.content.middle_answer.progress[0].answer\n",
   "xmessage.content.middle_answer.progress[0]",
   "message_content.middle_answer.progress[0]",
   "message.content.middle_answer.progress[0].Answer",
   "Message", "error:", "toString"}
LookupPaths == {ToStr(keyToJSONPath(key)) : key \in LookupKeys} \cup TypedPaths

LookupInit ==
  /\ UIInit
  /\ StreamIdle
  /\ RetryIdle
  /\ RaceIdle
  /\ ConvIdle
  /\ LookupIdle
  /\ SessionIdle
  /\ InitIdle
  /\ assistantMessage = EmptyObj
  /\ patchLog = <<>>

\* getWhitelistEntry(action, jsonPath)
Lookup(action, jsonPath) ==
  /\ lookup.n < MaxLookups
  /\ lookup' = [n |-> lookup.n + 1, action |-> action, jsonPath |-> jsonPath,
                entry |-> getWhitelistEntry(action, jsonPath)]
  /\ UNCHANGED <<uiVars, assistantMessage, patchLog, streamVars, retryVars, raceVars, convVars,
                 sessionVars, initVars>>

LookupNext == \E action \in LookupActions, jsonPath \in LookupPaths : Lookup(action, jsonPath)
SpecLookup == LookupInit /\ [][LookupNext]_vars

\* the five table entries named by the whitelist
TableEntry(action, jsonPath) ==
  \/ action = "upsert" /\ jsonPath \in {"error", "message",
                                        "message.content.final_answer.answer_type_other"}
  \/ action = "append" /\ jsonPath \in {"message.content.final_answer.answer.text",
                                        "message.content.middle_answer.progress"}
\* jsonPath is message.content.middle_answer.progress[N] followed by tail,
\* N written as one or more digits
IndexedProgress(jsonPath, tail) ==
  \E d \in 1..(Len(jsonPath) - Len(ProgressPrefix)) :
    /\ jsonPath = ProgressPrefix \o SubSeq(jsonPath, Len(ProgressPrefix) + 1, Len(ProgressPrefix) + d)
                    \o "]" \o tail
    /\ \A i \in 1..d : IsDigit(CharAt(jsonPath, Len(ProgressPrefix) + i))
Listed(action, jsonPath) ==
  \/ TableEntry(action, jsonPath)
  \/ action = "append" /\ (IndexedProgress(jsonPath, "") \/ IndexedProgress(jsonPath, ".answer"))

\* C22: getWhitelistEntry(action, path) returns an entry exactly when
\* action:path is one of the five table entries or action is append and path
\* is message.content.middle_answer.progress[N] or ...progress[N].answer for a
\* non-negative integer N; every other combination returns null.
C22_EntryIffListed ==
  lookup.n > 0 => ((lookup.entry # "null") <=> Listed(lookup.action, lookup.jsonPath))

\* a lookup of a progress answer path made from a key with a numeric segment
C22_Witness ==
  /\ lookup.n > 0
  /\ lookup.action = "append"
  /\ lookup.jsonPath = ToStr(keyToJSONPath(ProgressAnswerAt(7)))
  /\ lookup.jsonPath = "message.content.middle_answer.progress[7].answer"
  /\ lookup.entry = "progressAnswer"

\* C23: generateConversation never rejects: when the create-session request
\* fails it resolves to the empty string, and a send that started without a
\* conversation id then calls sendMessage exactly once, with the id
\* generateConversation resolved with, the empty one after a failure.
C23_SessionLessSend ==
  /\ ~IsThrown(generated.value)
  /\ generated.request = "failed" => generated.value = Str("")
  /\ generated.request # "none" => sendMessageCalls = <<generated.value.s>>
  /\ sendPc = "generating" => sendMessageCalls = <<>>

\* the create-session request failed with 401 and the send is streaming
C23_Witness ==
  /\ generated = [request |-> "failed", value |-> Str("")]
  /\ sendPc = "streaming"
  /\ sendMessageCalls = <<"">>
  /\ conversationID = ""
  /\ UserMessageId \in MessageIds(messages)

\* C24: when sendMessage rejects, the enclosing send rejects with that same
\* error, and once it has rejected isSending is false and streamingMessageId
\* is null.
C24_SendRejectsSame ==
  sendPc = "rejected"
    => /\ thrown # Undef
       /\ sendResult = thrown
       /\ isSending = FALSE
       /\ streamingMessageId = Null

\* the request of sendMessage failed with an unrecovered 401
C24_Witness ==
  /\ sendPc = "rejected"
  /\ thrown = Obj(<<E("status", Num(401))>>)
  /\ sendResult = thrown
  /\ ~isSending
  /\ sendMessageCalls # <<>>

(***************************************************************************)
(* Projection of progress entries                                          *)
(***************************************************************************)
\* the patch of the entry appends a progress entry: action append on
\* message.content.middle_answer.progress or on progress[N]
AppendsProgress(e) ==
  /\ ActionOf(e) = Str("append")
  /\ getWhitelistEntry("append", PathOf(e)) = "progress"
\* the last block of the message after the patch
LastBlock(e) == e.after[Len(e.after)]

\* C25: every whitelisted patch that appends a progress entry with stage
\* "llm" emits or merges a Markdown block with the entry's answer: after the
\* patch the last block of the message is a Markdown block whose content is
\* that answer.
C25_LlmEntryProjected ==
  \A e \in LogEntries :
    (AppendsProgress(e) /\ Chain(e.patch, <<"content", "stage">>) = Str("llm"))
      => /\ e.after # <<>>
         /\ LastBlock(e) = Block(BlockTypeMARKDOWN, Chain(e.patch, <<"content", "answer">>))

(***************************************************************************)
(* Retry wrapper: the error of a failed retry, the stored credential       *)
(***************************************************************************)
\* the first call failed with 401, the refresh resolved and the retry failed
RetryFailed ==
  /\ Len(attempts) = 2
  /\ StatusOf(attempts[1]) = Num(401)
  /\ refreshOutcome = "resolved"
  /\ attempts[2] # Ok

\* C26: when the first call fails with 401, the refresh succeeds and the
\* retried call fails, the wrapper rejects with the error raised by the retry,
\* not with the error of the first call.
C26_RejectsWithRetryError ==
  (RetryFailed /\ rtPc = "rejected") => (rtResult = attempts[2] /\ rtResult # attempts[1])

\* C27: after refreshToken has resolved with a new token the stored
\* credential is that token, the retry has read it, and it stays stored
\* whether the retry succeeds or fails; after refreshToken has rejected the
\* stored credential is still the one the first call read.
C27_CredentialStored ==
  /\ refreshOutcome = "resolved"
       => /\ token = refreshedWith
          /\ sentTokens = <<sentTokens[1], refreshedWith>>
          /\ apiCalls = 2
  /\ refreshOutcome = "rejected"
       => /\ token = sentTokens[1]
          /\ Len(sentTokens) = 1

\* a retry that read a token other than the one the first call read, and failed
C27_Witness ==
  /\ refreshOutcome = "resolved"
  /\ rtPc = "rejected"
  /\ Len(sentTokens) = 2
  /\ sentTokens[1] # sentTokens[2]
  /\ token = sentTokens[2]

(***************************************************************************)
(* Streaming of the final answer text                                      *)
(***************************************************************************)
\* the patch of the entry appends a text chunk to the final answer text
AppendsText(e) ==
  /\ ActionOf(e) = Str("append")
  /\ Dot(e.patch, "key") = FinalTextKey
  /\ IsStr(Dot(e.patch, "content"))
\* the chunks of the first n patches, joined in arrival order
RECURSIVE Chunks(_)
Chunks(n) == IF n = 0 THEN "" ELSE Chunks(n - 1) \o Dot(patchLog[n].patch, "content").s
OnlyTextSoFar == \A i \in 1..Len(patchLog) : AppendsText(patchLog[i])

\* C28: while every patch reduced for the message so far is a text append on
\* message.content.final_answer.answer.text, the message has after each patch
\* exactly one Markdown block, whose content is the chunks appended so far
\* joined in arrival order.
C28_OneGrowingBlock ==
  (Len(patchLog) > 0 /\ OnlyTextSoFar)
    => ContentOf(messages, AssistantMessageId)
         = <<Block(BlockTypeMARKDOWN, Str(Chunks(Len(patchLog))))>>

\* two different chunks have arrived
C28_Witness ==
  /\ Len(patchLog) >= 2
  /\ OnlyTextSoFar
  /\ Dot(patchLog[1].patch, "content") = Str("42")
  /\ Dot(patchLog[2].patch, "content") = Str("He")
  /\ patchLog[2].after = <<Block(BlockTypeMARKDOWN, Str("42He"))>>

(***************************************************************************)
(* Projection of skill entries                                             *)
(***************************************************************************)
RecognizedSkills == {Str("zhipu_search_tool"), Str("json2plot"), Str("text2sql")}
\* the patch of the entry appends a progress entry of a recognized skill
AppendsSkill(e) ==
  /\ AppendsProgress(e)
  /\ Chain(e.patch, <<"content", "stage">>) = Str("skill")
  /\ Chain(e.patch, <<"content", "skill_info", "name">>) \in RecognizedSkills
\* the blocks of the given type the patch of the entry added
Added(e, type) ==
  {i \in (Len(e.before) + 1)..Len(e.after) : e.after[i].type = type}

\* C29: reducing one progress patch whose entry has stage "skill" and a
\* recognized skill name adds at most one block to the message; a web-search
\* entry adds exactly one WebSearch block.
C29_OneBlockPerSkillEntry ==
  \A e \in LogEntries :
    AppendsSkill(e)
      => /\ Len(e.after) <= Len(e.before) + 1
         /\ Chain(e.patch, <<"content", "skill_info", "name">>) = Str("zhipu_search_tool")
              => Cardinality(Added(e, BlockTypeWEB_SEARCH)) = 1

(***************************************************************************)
(* Projection of an answer appended to a progress entry                    *)
(***************************************************************************)
\* the patch of the entry appends to the answer of progress entry N
AppendsAnswer(e) ==
  /\ ActionOf(e) = Str("append")
  /\ getWhitelistEntry("append", PathOf(e)) = "progressAnswer"
\* progress entry N of the tree returned, N the index in the key of the patch
EntryOf(e) ==
  getNestedProperty(e.next, SubSeq(KeySeq(Dot(e.patch, "key")), 1, ArrLen(Dot(e.patch, "key")) - 1))

\* C30: an append patch on message.content.middle_answer.progress[N].answer
\* projects the answer of entry N: when entry N has stage "llm", the last
\* block of the message after the patch is a Markdown block whose content is
\* progress[N].answer of the tree returned, whatever entries follow index N.
C30_ProjectsEntryN ==
  \A e \in LogEntries :
    (AppendsAnswer(e) /\ Dot(EntryOf(e), "stage") = Str("llm"))
      => /\ e.after # <<>>
         /\ LastBlock(e) = Block(BlockTypeMARKDOWN, Dot(EntryOf(e), "answer"))

(***************************************************************************)
(* Specification SpecSession: the calls a host and a user can make on one  *)
(* mounted component: send (also while a send is in flight), handleStop,   *)
(* createConversation and loadConversation; every await is a point where   *)
(* any of the others can run                                               *)
(***************************************************************************)
MaxSends == 2
\* calls a host and a user make in one session, over all four operations
MaxCalls == 3
\* the text argument of send: a message, nothing, white space
SentText == "hello"
Texts == {SentText, "", " \n "}
SomeContext == Obj(<<E("title", Str("page")), E("data", EmptyObj)>>)
\* the ctx argument of send: omitted or given
Contexts == {Undef, SomeContext}
\* the conversationID argument of send: omitted
SessionPassedIds == {""}
LoadedId == "conv-0"
EmptyTextError == Obj(<<E("message", Str("empty message"))>>)
FetchError == Obj(<<E("message", Str("Failed to fetch"))>>)
\* the payload of a "data:" line
DataLineBody(line) == SubSeq(line, 6, Len(line))
\* the frames every response of the platform carries: one text increment
SessionFrames(platform) ==
  IF platform = "coze"
  THEN <<Obj(<<E("event", Str("conversation.message.delta")),
               E("data", Str("{\"content\":\"Hi\",\"type\":\"answer\"}"))>>)>>
  ELSE <<Obj(<<E("event", Str("")),
               E("data", Str(Unterminated(DataLineBody(FinalTextLine("He")))))>>)>>
\* what generateConversation can resolve with
GeneratedValues ==
  {generateConversationResult(platform, result) : platform \in {"dip", "coze"},
                                                  result \in SessionResults}
    \cup {generateConversationCatch(error) : error \in RequestErrors}

\* `user-${Date.now()}`, `assistant-${Date.now()}` of the n-th send
UserIdOf(n) == IF n = 1 THEN "user-1" ELSE IF n = 2 THEN "user-2" ELSE "user-3"
AssistantIdOf(n) ==
  IF n = 1 THEN "assistant-1" ELSE IF n = 2 THEN "assistant-2" ELSE "assistant-3"

\* one send call: position, text, the id handed to sendMessage, calls made,
\* frames reduced, the tree folded so far, the blocks its reductions emitted,
\* reader.releaseLock() calls, and what it settled with
SendCall(pc, text) ==
  [pc |-> pc, text |-> text, id |-> "", generateCalls |-> 0, sendMessageCalls |-> 0,
   read |-> 0, tree |-> EmptyObj, emitted |-> <<>>, releases |-> 0, result |-> Undef]
SendsAt(pc) == {s \in DOMAIN sends : sends[s].pc = pc}
SendsInFlight == {s \in DOMAIN sends : sends[s].pc \in {"generating", "fetching", "streaming"}}

\* the calls made so far
SessionCalls ==
  Len(sends) + stop.returned + (IF stop.pc = "idle" THEN 0 ELSE 1)
    + (IF createPc = "idle" THEN 0 ELSE 1) + (IF loadPc = "idle" THEN 0 ELSE 1)

SessionInit ==
  /\ messages = <<>>
  /\ conversationID = ""
  /\ calls = <<>>
  /\ errors = 0
  /\ RetryIdle
  /\ RaceIdle
  /\ ConvIdle
  /\ LookupIdle
  /\ SessionIdle
  /\ InitIdle
  /\ assistantMessage = EmptyObj
  /\ patchLog = <<>>
  /\ adapter = "dip"
  /\ input = ""
  /\ pos = 0
  /\ carry = ""
  /\ buffer = ""
  /\ currentEvent = ""
  /\ frames = <<>>
  /\ hsrPc = "idle"
  /\ releases = 0
  /\ splitLine = FALSE

SessionUnchanged ==
  UNCHANGED <<assistantMessage, patchLog, streamVars, retryVars, raceVars, lookupVars, sendPc,
              previous, generated, sendMessageCalls, thrown, sendResult, visible, mounts,
              updates, hasInitialized, isInitializing, initializations, createCalls>>

\* a send that checks nothing
IsBlankNever(text) == FALSE
\* "if (!text.trim()) throw new Error(...)"
IsBlank(text) == trim(text) = ""

\* send from "this.setState({isSending: true})" up to the awaited request of
\* sendMessage: the user message is added and sendMessage is called with id
SentCall(call, id) == [call EXCEPT !.pc = "fetching", !.id = id, !.sendMessageCalls = 1]
SessionSending(n, text) ==
  /\ isSending' = TRUE
  /\ messages' = Append(messages, ChatMessage(UserIdOf(n), <<Block(BlockTypeTEXT, Str(text))>>))

\* send(text, ctx, conversationID) up to its first await
SessionSend(text, ctx, passed) ==
  /\ Len(sends) < MaxSends
  /\ SessionCalls < MaxCalls
  /\ IF IsBlank(text)
     THEN /\ sends' = Append(sends, [SendCall("rejected", text) EXCEPT !.result = EmptyTextError])
          /\ UNCHANGED <<messages, conversationID, isSending, applicationContext>>
     ELSE /\ applicationContext' = IF Truthy(ctx) THEN ctx ELSE applicationContext
          /\ UNCHANGED conversationID
          /\ IF passed = "" /\ conversationID = ""
             THEN /\ sends' = Append(sends, [SendCall("generating", text) EXCEPT !.generateCalls = 1])
                  /\ UNCHANGED <<messages, isSending>>
             ELSE /\ sends' = Append(sends, SentCall(SendCall("idle", text),
                                                    IF passed # "" THEN passed ELSE conversationID))
                  /\ SessionSending(Len(sends) + 1, text)
  /\ UNCHANGED <<calls, errors, streamingMessageId, stop, loadPc, createPc, isLoadingOnboarding>>
  /\ SessionUnchanged

\* generateConversation resolves with g: "this.setState({conversationID})"
\* and the rest of send up to the awaited request
SessionGenerated(n, g) ==
  /\ n \in SendsAt("generating")
  /\ conversationID' = g.s
  /\ sends' = [sends EXCEPT ![n] = SentCall(@, g.s)]
  /\ SessionSending(n, sends[n].text)
  /\ UNCHANGED <<calls, errors, streamingMessageId, stop, loadPc, createPc, isLoadingOnboarding,
                 applicationContext>>
  /\ SessionUnchanged

\* the request of sendMessage resolves: the empty assistant message is added,
\* streamingMessageId is set and handleStreamResponse awaits its first read
SessionFetchResolves(n) ==
  /\ n \in SendsAt("fetching")
  /\ sends' = [sends EXCEPT ![n].pc = "streaming"]
  /\ messages' = Append(messages, ChatMessage(AssistantIdOf(n), <<>>))
  /\ streamingMessageId' = Str(AssistantIdOf(n))
  /\ UNCHANGED <<conversationID, calls, errors, isSending, stop, loadPc, createPc,
                 isLoadingOnboarding, applicationContext>>
  /\ SessionUnchanged

\* send's catch block: "setState({isSending: false, streamingMessageId: null}); throw error"
SessionRejected(n, call, error) ==
  /\ sends' = [sends EXCEPT ![n] = [call EXCEPT !.pc = "rejected", !.result = error]]
  /\ isSending' = FALSE
  /\ streamingMessageId' = Null

\* the request of sendMessage rejects
SessionFetchRejects(n) ==
  /\ n \in SendsAt("fetching")
  /\ SessionRejected(n, sends[n], FetchError)
  /\ UNCHANGED <<messages, conversationID, calls, errors, stop, loadPc, createPc,
                 isLoadingOnboarding, applicationContext>>
  /\ SessionUnchanged

\* the blocks a reduction adds to a message that holds content
EmittedInto(platform, frame, tree, messageId, content) ==
  ContentOf(Reduce(platform, frame, tree, messageId,
                   [messages |-> <<ChatMessage(messageId, content)>>, conversationID |-> "",
                    calls |-> <<>>, errors |-> 0]).u.messages, messageId)

\* the reducer has returned r for the next frame of send n
SessionReduced(n, frame, r) ==
  /\ sends' = [sends EXCEPT ![n].read = @ + 1, ![n].tree = r.tree,
                            ![n].emitted = EmittedInto(adapter, frame, sends[n].tree,
                                                       AssistantIdOf(n), @)]
  /\ SetUI(r.u)

\* reader.read() resolves with the bytes of the next frame
SessionReadFrame(n) ==
  /\ n \in SendsAt("streaming")
  /\ sends[n].read < Len(SessionFrames(adapter))
  /\ SessionReduced(n, SessionFrames(adapter)[sends[n].read + 1],
                    Reduce(adapter, SessionFrames(adapter)[sends[n].read + 1], sends[n].tree,
                           AssistantIdOf(n), UI))
  /\ UNCHANGED <<isSending, streamingMessageId, stop, loadPc, createPc, isLoadingOnboarding,
                 applicationContext>>
  /\ SessionUnchanged

\* sendMessage: "state.messages.find(msg => msg.messageId === assistantMessageId)
\* || initialAssistantMessage"
finalMessageInitial(msgs, messageId) == ChatMessage(messageId, <<>>)
finalMessage(msgs, messageId) == ChatMessage(messageId, ContentOf(msgs, messageId))

\* reader.read() resolves with done: handleStreamResponse releases the reader
\* and returns, sendMessage returns the final message, send clears isSending
\* and streamingMessageId and returns it
SessionReadDone(n) ==
  /\ n \in SendsAt("streaming")
  /\ sends[n].read = Len(SessionFrames(adapter))
  /\ sends' = [sends EXCEPT ![n].pc = "resolved", ![n].releases = @ + 1,
                            ![n].result = finalMessage(messages, AssistantIdOf(n))]
  /\ isSending' = FALSE
  /\ streamingMessageId' = Null
  /\ UNCHANGED <<messages, conversationID, calls, errors, stop, loadPc, createPc,
                 isLoadingOnboarding, applicationContext>>
  /\ SessionUnchanged

\* reader.read() rejects: the reader is released and the error reaches send's
\* catch block
SessionReadFails(n) ==
  /\ n \in SendsAt("streaming")
  /\ SessionRejected(n, [sends[n] EXCEPT !.releases = @ + 1], ReadError)
  /\ UNCHANGED <<messages, conversationID, calls, errors, stop, loadPc, createPc,
                 isLoadingOnboarding, applicationContext>>
  /\ SessionUnchanged

\* handleStop that goes on without a streaming message
StopGuardNone(id) == FALSE
\* handleStop: "if (!streamingMessageId) return"
StopGuard(id) == ~Truthy(id)

\* handleStop up to its await: it reads conversationID and streamingMessageId
\* and calls terminateConversation(conversationID)
HandleStop ==
  /\ stop.pc = "idle"
  /\ SessionCalls < MaxCalls
  /\ stop' = IF StopGuard(streamingMessageId)
             THEN [stop EXCEPT !.returned = @ + 1, !.last = "nothing"]
             ELSE [stop EXCEPT !.pc = "terminating",
                               !.calls = Append(@, conversationID)]
  /\ UNCHANGED <<uiVars, sends, isSending, streamingMessageId, loadPc, createPc,
                 isLoadingOnboarding, applicationContext>>
  /\ SessionUnchanged

\* terminateConversation has settled: both branches of handleStop clear
\* streamingMessageId and isSending
StopSettles(outcome) ==
  /\ stop' = [stop EXCEPT !.pc = "idle", !.returned = @ + 1, !.last = outcome]
  /\ streamingMessageId' = Null
  /\ isSending' = FALSE
  /\ UNCHANGED <<uiVars, sends, loadPc, createPc, isLoadingOnboarding, applicationContext>>
  /\ SessionUnchanged
TerminateResolves ==
  /\ stop.pc = "terminating"
  /\ StopSettles("resolved")
\* "catch (error)": the error is logged, not rethrown
TerminateRejects ==
  /\ stop.pc = "terminating"
  /\ StopSettles("rejected")

\* createConversation up to its await: isLoadingOnboarding, clearConversation
SessionCreate ==
  /\ createPc = "idle"
  /\ SessionCalls < MaxCalls
  /\ createPc' = "onboarding"
  /\ isLoadingOnboarding' = TRUE
  /\ messages' = <<>>
  /\ conversationID' = ""
  /\ UNCHANGED <<calls, errors, sends, isSending, streamingMessageId, stop, loadPc,
                 applicationContext>>
  /\ SessionUnchanged

\* getOnboardingInfo has settled: "finally { setState({isLoadingOnboarding: false}) }"
SessionOnboardingSettles(outcome) ==
  /\ createPc = "onboarding"
  /\ createPc' = outcome
  /\ isLoadingOnboarding' = FALSE
  /\ UNCHANGED <<uiVars, sends, isSending, streamingMessageId, stop, loadPc, applicationContext>>
  /\ SessionUnchanged

\* loadConversation(conversationId) up to its await
SessionLoad ==
  /\ loadPc = "idle"
  /\ SessionCalls < MaxCalls
  /\ loadPc' = "loading"
  /\ UNCHANGED <<uiVars, sends, isSending, streamingMessageId, stop, createPc,
                 isLoadingOnboarding, applicationContext>>
  /\ SessionUnchanged

\* getConversationMessages resolves: conversationID and messages are replaced
SessionLoadResolves ==
  /\ loadPc = "loading"
  /\ loadPc' = "resolved"
  /\ conversationID' = LoadedId
  /\ messages' = OldMessages
  /\ UNCHANGED <<calls, errors, sends, isSending, streamingMessageId, stop, createPc,
                 isLoadingOnboarding, applicationContext>>
  /\ SessionUnchanged

\* getConversationMessages rejects: "throw error"
SessionLoadRejects ==
  /\ loadPc = "loading"
  /\ loadPc' = "rejected"
  /\ UNCHANGED <<uiVars, sends, isSending, streamingMessageId, stop, createPc,
                 isLoadingOnboarding, applicationContext>>
  /\ SessionUnchanged

SessionNext ==
  \/ \E text \in Texts, ctx \in Contexts, passed \in SessionPassedIds : SessionSend(text, ctx, passed)
  \/ \E n \in DOMAIN sends, g \in GeneratedValues : SessionGenerated(n, g)
  \/ \E n \in DOMAIN sends : SessionFetchResolves(n)
  \/ \E n \in DOMAIN sends : SessionFetchRejects(n)
  \/ \E n \in DOMAIN sends : SessionReadFrame(n)
  \/ \E n \in DOMAIN sends : SessionReadDone(n)
  \/ \E n \in DOMAIN sends : SessionReadFails(n)
  \/ HandleStop
  \/ TerminateRejects
  \/ TerminateResolves
  \/ SessionCreate
  \/ \E outcome \in {"resolved", "rejected"} : SessionOnboardingSettles(outcome)
  \/ SessionLoad
  \/ SessionLoadResolves
  \/ SessionLoadRejects
SpecSession == SessionInit /\ [][SessionNext]_vars

\* C31: a handleStop call made while streamingMessageId is null makes no
\* terminateConversation call and changes no state; one made while a message
\* is streaming calls terminateConversation once, with the conversation id of
\* that moment; no step of handleStop touches a send's reduction loop or its
\* reader; and when terminateConversation settles, resolved or rejected,
\* streamingMessageId is null and isSending is false.
C31_HandleStop ==
  [][stop' # stop =>
       /\ UNCHANGED <<sends, uiVars, loadPc, createPc, applicationContext>>
       /\ IF stop.pc = "idle"
          THEN /\ UNCHANGED <<isSending, streamingMessageId>>
               /\ IF streamingMessageId = Null
                  THEN stop'.calls = stop.calls /\ stop'.pc = "idle"
                  ELSE stop'.calls = Append(stop.calls, conversationID)
                         /\ stop'.pc = "terminating"
          ELSE /\ stop'.calls = stop.calls
               /\ stop'.pc = "idle"
               /\ stop'.last \in {"resolved", "rejected"}
               /\ streamingMessageId' = Null
               /\ isSending' = FALSE]_vars

\* terminateConversation was called once with the generated id and rejected,
\* while the send it was meant to stop is still reading with its reader held
C31_Witness ==
  /\ stop.pc = "idle" /\ stop.last = "rejected" /\ stop.calls = <<GeneratedId>>
  /\ streamingMessageId = Null /\ ~isSending
  /\ \E n \in DOMAIN sends : sends[n].pc = "streaming" /\ sends[n].releases = 0

\* C33: a send call whose text is empty or only white space rejects at once:
\* it makes no generateConversation and no sendMessage call, adds no message,
\* and leaves isSending, conversationID and applicationContext as they were.
C33_BlankSendRejects ==
  [][(Len(sends') = Len(sends) + 1 /\ trim(sends'[Len(sends')].text) = "") =>
       /\ sends'[Len(sends')].pc = "rejected"
       /\ sends'[Len(sends')].result = EmptyTextError
       /\ sends'[Len(sends')].generateCalls = 0
       /\ sends'[Len(sends')].sendMessageCalls = 0
       /\ UNCHANGED <<messages, isSending, conversationID, applicationContext,
                      streamingMessageId, calls>>]_vars

\* a white-space send was rejected while an earlier send with a context is
\* streaming, and a send with an empty text was rejected too
C33_Witness ==
  /\ Len(sends) = 2
  /\ sends[1].pc = "streaming" /\ applicationContext = SomeContext
  /\ sends[2].text = " \n " /\ sends[2].pc = "rejected" /\ sends[2].result = EmptyTextError
  /\ isSending /\ Len(messages) = 2

\* C35: in every reachable state, with a second send started while one is in
\* flight and handleStop, createConversation and loadConversation interleaved
\* at will, streamingMessageId is non-null only while isSending is true, and
\* once every send has settled isSending is false and streamingMessageId null.
C35_StreamingOnlyWhileSending ==
  /\ streamingMessageId # Null => isSending
  /\ (sends # <<>> /\ SendsInFlight = {}) => (~isSending /\ streamingMessageId = Null)
\* the second half of it on its own
C35_SettledClears ==
  (sends # <<>> /\ SendsInFlight = {}) => (~isSending /\ streamingMessageId = Null)
\* a message is streaming with isSending true and a single send in the session
C35_OneSend ==
  (Len(sends) = 1 /\ streamingMessageId # Null) => isSending

\* C36: the message a send returns when its stream ends is the assistant
\* message created for it, holding every block its reductions emitted, in
\* emission order, also when createConversation or loadConversation replaced
\* the message list while the stream was read.
C36_ReturnsAssembled ==
  \A n \in DOMAIN sends :
    sends[n].pc = "resolved" =>
      sends[n].result = ChatMessage(AssistantIdOf(n), sends[n].emitted)
\* the same in the runs where the message list was never replaced
C36_NoReplacement ==
  (createPc = "idle" /\ loadPc \in {"idle", "loading", "rejected"}) => C36_ReturnsAssembled

(***************************************************************************)
(* Specification SpecInit: the lifecycle of one component instance:        *)
(* componentDidMount (twice under React.StrictMode), changes of            *)
(* props.visible, and the awaits of initializeConversation                 *)
(***************************************************************************)
MaxMounts == 2
MaxUpdates == 3

Initialization(pc, by) == [pc |-> pc, by |-> by]
InProgress ==
  {i \in DOMAIN initializations :
     initializations[i].pc \in {"creating", "created", "createFailed", "fallback"}}
Succeeded ==
  {i \in DOMAIN initializations : initializations[i].pc \in {"succeeded", "recovered"}}

InitInit ==
  /\ messages = <<>>
  /\ \E id \in {"", "conv-0"} : conversationID = id
  /\ calls = <<>>
  /\ errors = 0
  /\ StreamIdle
  /\ RetryIdle
  /\ RaceIdle
  /\ ConvIdle
  /\ LookupIdle
  /\ SessionIdle
  /\ visible \in BOOLEAN
  /\ mounts = 0
  /\ updates = 0
  /\ hasInitialized = FALSE
  /\ isInitializing = FALSE
  /\ isLoadingOnboarding = FALSE
  /\ initializations = <<>>
  /\ createCalls = 0
  /\ assistantMessage = EmptyObj
  /\ patchLog = <<>>

InitUnchanged ==
  UNCHANGED <<calls, errors, assistantMessage, patchLog, streamVars, retryVars, raceVars,
              convVars, lookupVars, sessionVars>>

\* an initialization that never records its success
markInitializedNot(old) == old
\* "this.hasInitialized = true"
markInitialized(old) == TRUE

\* initializeConversation up to the await inside createConversation: the
\* flags, then createConversation sets isLoadingOnboarding and clears the
\* conversation
InitializeConversation(by) ==
  IF isInitializing \/ hasInitialized
  THEN UNCHANGED <<messages, conversationID, hasInitialized, isInitializing,
                   isLoadingOnboarding, initializations, createCalls>>
  ELSE /\ isInitializing' = TRUE
       /\ isLoadingOnboarding' = TRUE
       /\ createCalls' = createCalls + 1
       /\ messages' = <<>>
       /\ conversationID' = ""
       /\ initializations' = Append(initializations, Initialization("creating", by))
       /\ UNCHANGED hasInitialized
\* the guard of both lifecycle methods, then the call
Requested(by, wanted) ==
  IF wanted /\ ~hasInitialized /\ ~isInitializing
  THEN InitializeConversation(by)
  ELSE UNCHANGED <<messages, conversationID, hasInitialized, isInitializing,
                   isLoadingOnboarding, initializations, createCalls>>

ComponentDidMount ==
  /\ mounts < MaxMounts
  /\ mounts' = mounts + 1
  /\ Requested("mount", visible)
  /\ UNCHANGED <<visible, updates>>
  /\ InitUnchanged

\* the host changes props.visible to v: componentDidUpdate(prevProps)
ComponentDidUpdate(v) ==
  /\ mounts >= 1
  /\ updates < MaxUpdates
  /\ v # visible
  /\ visible' = v
  /\ updates' = updates + 1
  /\ Requested("update", ~visible /\ v)
  /\ UNCHANGED mounts
  /\ InitUnchanged

\* getOnboardingInfo inside createConversation has settled: the finally block
\* of createConversation clears isLoadingOnboarding
CreateSettles(i, pc) ==
  /\ i \in DOMAIN initializations
  /\ initializations[i].pc = "creating"
  /\ initializations' = [initializations EXCEPT ![i].pc = pc]
  /\ isLoadingOnboarding' = FALSE
  /\ UNCHANGED <<messages, conversationID, visible, mounts, updates, hasInitialized,
                 isInitializing, createCalls>>
  /\ InitUnchanged

\* the finally block of initializeConversation
InitializeFinally(i, pc, initialized) ==
  /\ initializations' = [initializations EXCEPT ![i].pc = pc]
  /\ hasInitialized' = initialized
  /\ isInitializing' = FALSE
  /\ isLoadingOnboarding' = FALSE
  /\ UNCHANGED <<messages, conversationID, visible, mounts, updates, createCalls>>
  /\ InitUnchanged

\* createConversation resolved: hasInitialized, finally
InitializeSucceeds(i) ==
  /\ i \in DOMAIN initializations
  /\ initializations[i].pc = "created"
  /\ InitializeFinally(i, "succeeded", markInitialized(hasInitialized))

\* createConversation rejected: the catch block awaits getOnboardingInfo()
InitializeCatches(i) ==
  /\ i \in DOMAIN initializations
  /\ initializations[i].pc = "createFailed"
  /\ initializations' = [initializations EXCEPT ![i].pc = "fallback"]
  /\ UNCHANGED <<messages, conversationID, visible, mounts, updates, hasInitialized,
                 isInitializing, isLoadingOnboarding, createCalls>>
  /\ InitUnchanged

\* getOnboardingInfo of the catch block resolves: onboardingInfo, hasInitialized, finally
FallbackResolves(i) ==
  /\ i \in DOMAIN initializations
  /\ initializations[i].pc = "fallback"
  /\ InitializeFinally(i, "recovered", markInitialized(hasInitialized))

\* it rejects: the inner catch logs, finally
FallbackRejects(i) ==
  /\ i \in DOMAIN initializations
  /\ initializations[i].pc = "fallback"
  /\ InitializeFinally(i, "failed", hasInitialized)

InitNext ==
  \/ ComponentDidMount
  \/ \E v \in BOOLEAN : ComponentDidUpdate(v)
  \/ \E i \in DOMAIN initializations, pc \in {"created", "createFailed"} : CreateSettles(i, pc)
  \/ \E i \in DOMAIN initializations : InitializeSucceeds(i)
  \/ \E i \in DOMAIN initializations : InitializeCatches(i)
  \/ \E i \in DOMAIN initializations : FallbackResolves(i)
  \/ \E i \in DOMAIN initializations : FallbackRejects(i)
SpecInit == InitInit /\ [][InitNext]_vars

\* C32: over all interleavings of mount and visibility-change events with the
\* awaits of initializeConversation, at most one initialization is in
\* progress; createConversation is called only when none is in progress and
\* none has succeeded; and at the step an initialization finishes, in success
\* or failure, isInitializing and isLoadingOnboarding are false.
C32_SingleInitialization ==
  [][/\ Cardinality(InProgress') <= 1
     /\ createCalls' # createCalls =>
          (InProgress = {} /\ Succeeded = {} /\ createCalls' = createCalls + 1)
     /\ \A i \in InProgress :
          i \notin InProgress' => (~isInitializing' /\ ~isLoadingOnboarding')]_vars

\* a mount event and a visibility change arrived while the first
\* initialization was in progress, it succeeded, a later change to visible
\* arrived, and createConversation has been called once
C32_Witness ==
  /\ mounts = 2 /\ updates = 3 /\ visible
  /\ Len(initializations) = 1 /\ initializations[1].pc = "succeeded"
  /\ createCalls = 1 /\ hasInitialized /\ ~isInitializing /\ ~isLoadingOnboarding
\* a failed initialization was followed by a second one
C32_WitnessFailure ==
  /\ Len(initializations) = 2 /\ initializations[1].pc = "failed"
  /\ initializations[2].pc = "recovered" /\ createCalls = 2

(***************************************************************************)
(* Specification SpecCoze: the bot platform reducer called directly on     *)
(* event messages of every event name it knows and of names it does not    *)
(***************************************************************************)
CozeEventNames ==
  {"conversation.message.delta", "conversation.message.completed",
   "conversation.chat.created", "conversation.chat.in_progress",
   "conversation.chat.completed", "conversation.message.started", "done", "", "ping"}
AnswerPayload == "{\"content\":\"Hi\",\"type\":\"answer\"}"
CozePayloads ==
  {AnswerPayload,
   "{\"content\":\"\",\"type\":\"answer\"}",
   "{\"content\":0,\"type\":\"answer\"}",
   "{\"content\":\"Hi\",\"type\":\"verbose\"}",
   "{\"content\":\"More?\",\"type\":\"follow_up\"}",
   "{\"content\":\"Hi\"}",
   "{\"msg_type\":\"generate_answer_finish\"}",
   "{\"status\":\"completed\",\"conversation_id\":\"c1\"}",
   "null",
   "{\"content\":"}
EventMessage(event, data) == Obj(<<E("event", Str(event)), E("data", Str(data))>>)
\* every event name with an answer payload, and every payload under the two
\* message events, under no event name and under an unknown one
CozeEventMessages ==
  {EventMessage(event, AnswerPayload) : event \in CozeEventNames}
    \cup {EventMessage(event, data) :
            event \in {"conversation.message.delta", "conversation.message.completed", "", "ping"},
            data \in CozePayloads}

CozeReduce(em) ==
  Reduced(em, cozeReduceAssistantMessage(em, assistantMessage, AssistantMessageId, UI))
CozeNext == \E em \in CozeEventMessages : CozeReduce(em)
SpecCoze == PatchInit /\ [][CozeNext]_vars

\* the payload of a logged event message parses to an object with a non-empty
\* content and type "answer"
IsAnswerMessage(em) ==
  /\ ~IsThrown(JSONParse(Dot(em, "data").s))
  /\ ~IsNullish(JSONParse(Dot(em, "data").s))
  /\ Truthy(Dot(JSONParse(Dot(em, "data").s), "content"))
  /\ Dot(JSONParse(Dot(em, "data").s), "type") = Str("answer")
IsMessageEvent(em) ==
  Dot(em, "event") \in {Str("conversation.message.delta"), Str("conversation.message.completed")}

\* C34: a reduction of the bot platform returns a buffer different from the
\* previous one, or makes an append*Block call, only for a
\* conversation.message.delta or conversation.message.completed event whose
\* payload has a non-empty content and type "answer"; every other event
\* message, and one whose data does not parse, leaves the buffer and the
\* blocks as they were.
C34_OnlyAnswersReduce ==
  \A i \in 1..Len(patchLog) :
    (patchLog[i].next # patchLog[i].prev \/ patchLog[i].calls # <<>>
       \/ patchLog[i].after # patchLog[i].before)
      => (IsMessageEvent(patchLog[i].patch) /\ IsAnswerMessage(patchLog[i].patch))

\* a delta answer grew the buffer, then a verbose completed message with
\* content left the buffer and the block alone
C34_Witness ==
  /\ Len(patchLog) = 2
  /\ patchLog[1].patch = EventMessage("conversation.message.delta", AnswerPayload)
  /\ patchLog[1].next # patchLog[1].prev /\ Len(patchLog[1].calls) = 1
  /\ patchLog[2].patch
       = EventMessage("conversation.message.completed", "{\"content\":\"Hi\",\"type\":\"verbose\"}")
  /\ patchLog[2].next = patchLog[1].next /\ patchLog[2].calls = <<>>
  /\ patchLog[2].after = patchLog[2].before /\ Len(patchLog[2].after) = 1

\* C37: an append*Block(messageId, ...) call leaves every message with
\* another id as it was, keeps the list's length and order, leaves every block
\* of the target message but its last one as it was, changes the target's
\* block count by 0 or 1, and changes nothing when no message carries the id.
C37_AppendFrame ==
  [][calls' # calls =>
       /\ Len(messages') = Len(messages)
       /\ \A i \in 1..Len(messages) :
            /\ messages'[i].messageId = messages[i].messageId
            /\ messages[i].messageId # calls'[Len(calls')].id => messages'[i] = messages[i]
            /\ Len(messages'[i].content) - Len(messages[i].content) \in {0, 1}
            /\ \A j \in 1..(Len(messages[i].content) - 1) :
                 messages'[i].content[j] = messages[i].content[j]
       /\ (\A i \in 1..Len(messages) : messages[i].messageId # calls'[Len(calls')].id)
            => messages' = messages]_vars

\* a Markdown block was added and then replaced by a longer text, and a
\* web-search append for an id no message carries changed nothing
C37_Witness ==
  /\ Len(calls) = 3
  /\ calls[1] = Call("appendMarkdownBlock", AssistantMessageId, Str("He"))
  /\ calls[2] = Call("appendMarkdownBlock", AssistantMessageId, Str("Hello"))
  /\ calls[3] = Call("appendWebSearchBlock", MissingMessageId, SampleQuery)
  /\ messages = <<StreamingMessages[1],
                  ChatMessage(AssistantMessageId, <<Block(BlockTypeMARKDOWN, Str("Hello"))>>)>>

\* a data: line under the rule that an event: line labels the one data: line
\* after it: the end marker and a payload that is not JSON use the label up
DataLineFirstOnly(platform, messageId, h, dataStr) ==
  IF dataStr = "[DONE]" \/ IsThrown(JSONParse(dataStr))
  THEN [h EXCEPT !.currentEvent = ""]
  ELSE DataParsed(platform, messageId, h, dataStr, JSONParse(dataStr))
TrimmedLineFirstOnly(platform, messageId, h, trimmedLine) ==
  IF startsWith(trimmedLine, "data:")
  THEN DataLineFirstOnly(platform, messageId, h, trim(SubSeq(trimmedLine, 6, Len(trimmedLine))))
  ELSE TrimmedLine(platform, messageId, h, trimmedLine)
RECURSIVE LinesFirstOnly(_, _, _, _, _)
LinesFirstOnly(platform, messageId, h, lines, i) ==
  IF i > Len(lines) THEN h
  ELSE LinesFirstOnly(platform, messageId,
         TrimmedLineFirstOnly(platform, messageId, h, trim(lines[i])), lines, i + 1)
\* the run over the whole body under that rule
FirstOnly ==
  LinesFirstOnly(adapter, AssistantMessageId,
    InitialDecoderState([messages |-> StreamingMessages, conversationID |-> "",
                         calls |-> <<>>, errors |-> 0]).h,
    CompleteLines(input), 1)
Labels(fs) == [i \in 1..Len(fs) |-> <<fs[i].event, fs[i].data>>]

\* C38: an event: line labels only the first data: line after it; when that
\* line is the [DONE] marker or is not JSON the event type is not carried to
\* a later data: line: a run that has returned delivered its frames with the
\* event types of the run in which such a line uses the label up.
C38_LabelsFirstDataLine ==
  hsrPc = "returned" => Labels(frames) = Labels(FirstOnly.frames)
\* the same for the streams in which every data: line after an event: line
\* is delivered
C38_DeliveredLines ==
  (hsrPc = "returned" /\ input \notin {CozeIdStream, EventBadJsonStream})
    => Labels(frames) = Labels(FirstOnly.frames)

\* C39: handleStreamResponse releases the reader's lock exactly once on every
\* exit path: the lock is held while the stream is read, and a run that has
\* returned at the end of the stream, or rejected with the error of
\* reader.read(), has called releaseLock once.
C39_ReleasedOnce ==
  /\ hsrPc \in {"idle", "reading"} => releases = 0
  /\ hsrPc \in {"returned", "rejected"} => releases = 1

\* reader.read() rejected after a frame had been delivered and with part of a
\* line buffered: the run rejected and the lock was released once
C39_Witness ==
  /\ hsrPc = "rejected" /\ releases = 1
  /\ Len(frames) >= 1 /\ buffer # "" /\ pos < Len(input)
\* a run that returned at the end of the stream
C39_WitnessReturned ==
  /\ hsrPc = "returned" /\ releases = 1 /\ Len(frames) >= 1

====
